---- MODULE Spec2Model ----
(***************************************************************************)
(* Event-session reconstruction of clash_royale_api:                       *)
(*   models/event_deck.py   EventDeck.add_battle / _update_progress        *)
(*   battle_log_parser.py   BattleLogParser (segmenter and builder)        *)
(*   models/event_deck.py   EventDeckCollection.add_deck                   *)
(*   event_deck_manager.py  EventDeckManager (store, query, import,        *)
(*                          analysis)                                      *)
(***************************************************************************)
EXTENDS Integers, Sequences, FiniteSets, TLC

VARIABLES
    event_deck,     \* the EventDeck under add_battle (session machine)
    now,            \* datetime.now(), in minutes
    battle_logs,    \* input of parse_battle_logs
    hash_seed,      \* the process's string-hash seed (PYTHONHASHSEED)
    pc,             \* "input" until parse_battle_logs has run, then "parsed"
    event_groups,   \* result of _group_battles_by_event, in dict order
    event_decks,    \* result of parse_battle_logs
    collection,     \* an EventDeckCollection in memory, under add_deck
    files,          \* the session documents under the player's directory
    collection_file,\* the player's collection.json
    imported,       \* result of import_from_battle_logs
    log,            \* the manager's logger lines of the call
    result,         \* <<>> or the arguments and result of the last call
    runs,           \* the inputs and outputs of the earlier runs
    writers         \* the save_event_deck calls in progress, one per caller

store_vars ==
    <<collection, files, collection_file, imported, log, result, runs, writers>>

vars == <<event_deck, now, battle_logs, hash_seed, pc, event_groups, event_decks,
          collection, files, collection_file, imported, log, result, runs,
          writers>>

(***************************************************************************)
(* Bounds                                                                  *)
(***************************************************************************)
MaxBattles == 13    \* add_battle calls on one session
MaxNow == 1         \* clock ticks in the session machine
MaxLogs == 3        \* battles in one battle log
MaxSeed == 1        \* hash seeds 0..MaxSeed
MaxExample == 11    \* battles of the continued Grand Challenge group
MaxWindow == 2      \* battles in one imported battle-log window
MaxRuns == 1        \* runs before the current one
MaxLimit == 2       \* limit arguments 0..MaxLimit of get_event_decks
MaxDaysBack == 1    \* days_back arguments 0..MaxDaysBack of get_event_decks
MaxCalls == 6       \* add_battle calls on a session of any starting progress
MaxGroup == 13      \* battles in one group handed to _create_event_deck

(***************************************************************************)
(* models/event_deck.py                                                    *)
(***************************************************************************)
\* Python None in an Optional[int] / Optional[datetime] field
None == -1

IN_PROGRESS == "in_progress"
COMPLETED == "completed"
ELIMINATED == "eliminated"
FORFEITED == "forfeited"

EventProgress == {IN_PROGRESS, COMPLETED, ELIMINATED, FORFEITED}

\* EventPerformance(): the field defaults.  win_rate is the exact ratio
\* <<numerator, denominator>>; the default 0 is <<0, 1>>.
EventPerformance ==
    [wins |-> 0, losses |-> 0, win_rate |-> <<0, 1>>,
     crowns_earned |-> 0, crowns_lost |-> 0, max_wins |-> None,
     current_streak |-> 0, best_streak |-> 0, progress |-> IN_PROGRESS]

Max(a, b) == IF a >= b THEN a ELSE b

\* Python truthiness of Optional[int]: None and 0 are falsy.
Truthy(x) == x # None /\ x # 0

\* _update_progress that takes a passed end_time of a running session for
\* a forfeit
UpdateProgress_forfeit(ed, t) ==
    LET p == ed.performance
        p1 == IF Truthy(p.max_wins)
              THEN IF p.wins >= p.max_wins THEN COMPLETED
                   ELSE IF p.losses >= 3 THEN ELIMINATED
                   ELSE p.progress
              ELSE p.progress
        p2 == IF ed.end_time # None /\ ed.end_time < t /\ p1 = IN_PROGRESS
              THEN FORFEITED ELSE p1
    IN  [ed EXCEPT !.performance.progress = p2]

\* _update_progress that leaves a completed or eliminated session alone
UpdateProgress_absorbing(ed, t) ==
    LET p == ed.performance
        p1 == IF Truthy(p.max_wins)
              THEN IF p.wins >= p.max_wins THEN COMPLETED
                   ELSE IF p.losses >= 3 THEN ELIMINATED
                   ELSE p.progress
              ELSE p.progress
        p2 == IF ed.end_time # None /\ ed.end_time < t /\ p1 = IN_PROGRESS
              THEN COMPLETED ELSE p1
    IN  IF p.progress \in {COMPLETED, ELIMINATED} THEN ed
        ELSE [ed EXCEPT !.performance.progress = p2]

\* EventDeck._update_progress, with t the value of datetime.now()
UpdateProgress_gt(ed, t) ==
    LET p == ed.performance
        p1 == IF Truthy(p.max_wins)
              THEN IF p.wins > p.max_wins THEN COMPLETED
                   ELSE IF p.losses >= 3 THEN ELIMINATED
                   ELSE p.progress
              ELSE p.progress
        p2 == IF ed.end_time # None /\ ed.end_time < t /\ p1 = IN_PROGRESS
              THEN COMPLETED ELSE p1
    IN  [ed EXCEPT !.performance.progress = p2]

UpdateProgress(ed, t) ==
    LET p == ed.performance
        p1 == IF Truthy(p.max_wins)
              THEN IF p.wins >= p.max_wins THEN COMPLETED
                   ELSE IF p.losses >= 3 THEN ELIMINATED
                   ELSE p.progress
              ELSE p.progress
        p2 == IF ed.end_time # None /\ ed.end_time < t /\ p1 = IN_PROGRESS
              THEN COMPLETED ELSE p1
    IN  [ed EXCEPT !.performance.progress = p2]

\* add_battle whose losing branch keeps current_streak
AddBattle_noReset(ed, battle, t) ==
    LET p == ed.performance
        q == IF battle.result = "win"
             THEN [p EXCEPT !.wins = p.wins + 1,
                            !.crowns_earned = p.crowns_earned + battle.crowns,
                            !.current_streak = p.current_streak + 1,
                            !.best_streak = Max(p.best_streak, p.current_streak + 1)]
             ELSE [p EXCEPT !.losses = p.losses + 1,
                            !.crowns_lost = p.crowns_lost + battle.opponent_crowns]
        total_battles == q.wins + q.losses
        r == IF total_battles > 0
             THEN [q EXCEPT !.win_rate = <<q.wins, total_battles>>]
             ELSE q
    IN  UpdateProgress([ed EXCEPT !.battles = Append(ed.battles, battle),
                                  !.performance = r], t)

\* add_battle whose win rate is computed from the counters before the battle
AddBattle_staleRate(ed, battle, t) ==
    LET p == ed.performance
        q == IF battle.result = "win"
             THEN [p EXCEPT !.wins = p.wins + 1,
                            !.crowns_earned = p.crowns_earned + battle.crowns,
                            !.current_streak = p.current_streak + 1,
                            !.best_streak = Max(p.best_streak, p.current_streak + 1)]
             ELSE [p EXCEPT !.losses = p.losses + 1,
                            !.crowns_lost = p.crowns_lost + battle.opponent_crowns,
                            !.current_streak = 0]
        total_battles == q.wins + q.losses
        r == IF total_battles > 0
             THEN [q EXCEPT !.win_rate = <<p.wins, total_battles>>]
             ELSE q
    IN  UpdateProgress([ed EXCEPT !.battles = Append(ed.battles, battle),
                                  !.performance = r], t)

\* EventDeck.add_battle
AddBattle(ed, battle, t) ==
    LET p == ed.performance
        q == IF battle.result = "win"
             THEN [p EXCEPT !.wins = p.wins + 1,
                            !.crowns_earned = p.crowns_earned + battle.crowns,
                            !.current_streak = p.current_streak + 1,
                            !.best_streak = Max(p.best_streak, p.current_streak + 1)]
             ELSE [p EXCEPT !.losses = p.losses + 1,
                            !.crowns_lost = p.crowns_lost + battle.opponent_crowns,
                            !.current_streak = 0]
        total_battles == q.wins + q.losses
        r == IF total_battles > 0
             THEN [q EXCEPT !.win_rate = <<q.wins, total_battles>>]
             ELSE q
    IN  UpdateProgress([ed EXCEPT !.battles = Append(ed.battles, battle),
                                  !.performance = r], t)

(***************************************************************************)
(* Strings.  A string is a sequence of tokens: words and the separators    *)
(* " " and "_".  str.lower() maps every word to its lower-case form, and   *)
(* `a in b` is the search for a contiguous occurrence.                     *)
(***************************************************************************)
LowerToken(w) ==
    CASE w = "Grand" -> "grand"       [] w = "Challenge" -> "challenge"
      [] w = "Classic" -> "classic"   [] w = "Draft" -> "draft"
      [] w = "Tournament" -> "tournament"
      [] w = "Special" -> "special"   [] w = "Event" -> "event"
      [] w = "Sudden" -> "sudden"     [] w = "Death" -> "death"
      [] w = "Double" -> "double"     [] w = "Elimination" -> "elimination"
      [] w = "Ladder" -> "ladder"     [] w = "Royale" -> "royale"
      [] w = "Clash" -> "clash"       [] w = "Championship" -> "championship"
      [] OTHER -> w

\* str.lower()
Lower(s) == [i \in 1..Len(s) |-> LowerToken(s[i])]

\* str.replace(" ", "_")
ReplaceSpaces(s) == [i \in 1..Len(s) |-> IF s[i] = " " THEN "_" ELSE s[i]]

\* pat in s
Contains(pat, s) ==
    \E i \in 0..(Len(s) - Len(pat)) : \A j \in 1..Len(pat) : s[i + j] = pat[j]

Min(S) == CHOOSE x \in S : \A y \in S : x <= y

\* the insertion of index i into perm, a list of indices in ascending key
\* order: after every index whose key is <= key[i]
RECURSIVE InsertByKey(_, _, _)
InsertByKey(perm, key, i) ==
    IF perm = <<>> THEN <<i>>
    ELSE IF key[perm[Len(perm)]] <= key[i] THEN Append(perm, i)
    ELSE Append(InsertByKey(SubSeq(perm, 1, Len(perm) - 1), key, i),
                perm[Len(perm)])

\* the indices 1..n in ascending key order, equal keys in index order
RECURSIVE SortedIndices(_, _)
SortedIndices(key, n) ==
    IF n = 0 THEN <<>> ELSE InsertByKey(SortedIndices(key, n - 1), key, n)

\* sorted(s, key=...): stable, ascending; key[i] is the sort key of s[i]
SortedBy(s, key) ==
    LET perm == SortedIndices(key, Len(s))
    IN  [r \in 1..Len(s) |-> s[perm[r]]]

(***************************************************************************)
(* battle_log_parser.py: the vocabulary tables                             *)
(***************************************************************************)
CHALLENGE == "challenge"
TOURNAMENT == "tournament"
SPECIAL_EVENT == "special_event"
GRAND_CHALLENGE == "grand_challenge"
CLASSIC_CHALLENGE == "classic_challenge"
DRAFT_CHALLENGE == "draft_challenge"
SUDDEN_DEATH == "sudden_death"
DOUBLE_ELIMINATION == "double_elimination"

\* EVENT_BATTLE_MODES, in the dict's (insertion) order
EVENT_BATTLE_MODES ==
    << << <<"Challenge">>, CHALLENGE >>,
       << <<"Grand", " ", "Challenge">>, GRAND_CHALLENGE >>,
       << <<"Classic", " ", "Challenge">>, CLASSIC_CHALLENGE >>,
       << <<"Draft", " ", "Challenge">>, DRAFT_CHALLENGE >>,
       << <<"Tournament">>, TOURNAMENT >>,
       << <<"Special", " ", "Event">>, SPECIAL_EVENT >>,
       << <<"Sudden", " ", "Death">>, SUDDEN_DEATH >>,
       << <<"Double", " ", "Elimination">>, DOUBLE_ELIMINATION >> >>

\* EVENT_PATTERNS, in the dict's order
EVENT_PATTERNS ==
    << << <<"lava">>, <<"Lava", " ", "Hound", " ", "Challenge">> >>,
       << <<"hog">>, <<"Hog", " ", "Rider", " ", "Challenge">> >>,
       << <<"mortar">>, <<"Mortar", " ", "Challenge">> >>,
       << <<"graveyard">>, <<"Graveyard", " ", "Challenge">> >>,
       << <<"ram", " ", "rage">>, <<"Ram", " ", "Rage", " ", "Challenge">> >>,
       << <<"sparky">>, <<"Sparky", " ", "Challenge">> >>,
       << <<"electro">>, <<"Electro", " ", "Challenge">> >>,
       << <<"skeleton">>, <<"Skeleton", " ", "Army", " ", "Challenge">> >>,
       << <<"bandit">>, <<"Bandit", " ", "Challenge">> >>,
       << <<"night", " ", "witch">>, <<"Night", " ", "Witch", " ", "Challenge">> >>,
       << <<"royale">>, <<"Clash", " ", "Royale", " ", "Championship">> >>,
       << <<"worlds">>, <<"World", " ", "Championship">> >>,
       << <<"ccgs">>, <<"Clash", " ", "Championship", " ", "Series">> >> >>

\* event_mode.lower() / pattern.lower() for every key of EVENT_BATTLE_MODES
LoweredModes ==
    [k \in 1..Len(EVENT_BATTLE_MODES) |-> Lower(EVENT_BATTLE_MODES[k][1])]

OneHour == 60       \* timedelta(hours=1), in minutes
MinutesPerDay == 1440

(***************************************************************************)
(* battle_log_parser.py: the segmenter                                     *)
(***************************************************************************)
\* A battleTime string is "" (<<>>) or a well-formed stamp <<day, minute>>.
\* StringRank orders the strings as str comparison does: "" first, then the
\* fixed-width stamps in chronological order.
StringRank(battleTime) ==
    IF battleTime = <<>> THEN -1
    ELSE battleTime[1] * MinutesPerDay + battleTime[2]

\* _parse_battle_time: strptime, or datetime.now() when it raises
ParseBattleTime(battleTime, t) ==
    IF battleTime = <<>> THEN t
    ELSE battleTime[1] * MinutesPerDay + battleTime[2]

\* the gameMode names of the battle logs
GrandChallenge == <<"Grand", " ", "Challenge">>
ClassicChallenge == <<"Classic", " ", "Challenge">>
DraftChallenge == <<"Draft", " ", "Challenge">>
RoyaleTournament == <<"Royale", " ", "Tournament">>
Ladder == <<"Ladder">>

ModeLabels ==
    {GrandChallenge, ClassicChallenge, DraftChallenge, RoyaleTournament, Ladder}

\* the loop over EVENT_BATTLE_MODES of _is_event_battle
MatchesEventMode(mode_name) ==
    \E k \in 1..Len(EVENT_BATTLE_MODES) :
        Contains(LoweredModes[k], Lower(mode_name))

\* the loop over EVENT_BATTLE_MODES.items() of _extract_event_data: the
\* first entry in dict order whose pattern occurs in the name
EventTypeOf(mode_name) ==
    LET types == { k \in 1..Len(EVENT_BATTLE_MODES) :
                      Contains(LoweredModes[k], Lower(mode_name)) }
    IN  IF types = {} THEN CHALLENGE ELSE EVENT_BATTLE_MODES[Min(types)][2]

\* the loop over EVENT_PATTERNS.items() of _extract_event_data
EventNameOf(mode_name) ==
    LET names == { k \in 1..Len(EVENT_PATTERNS) :
                      Contains(EVENT_PATTERNS[k][1], Lower(mode_name)) }
    IN  IF names = {} THEN mode_name ELSE EVENT_PATTERNS[Min(names)][2]

\* the three loops, evaluated once for every name
ModeTable ==
    [m \in ModeLabels |-> [matches |-> MatchesEventMode(m),
                           event_type |-> EventTypeOf(m),
                           event_name |-> EventNameOf(m)]]

\* _is_event_battle
IsEventBattle_all(battle) == TRUE

IsEventBattle(battle) ==
    \/ ModeTable[battle.gameMode].matches
    \/ \E i \in 1..Len(battle.team) : battle.team[i].cards = <<>>
    \/ ~battle.isLadderBattle

\* the key of cards.sort(key=lambda x: x.get("slot", 0))
SlotKey(card) == card.slot

SortedBySlot(cards) ==
    SortedBy(cards, [i \in 1..Len(cards) |-> SlotKey(cards[i])])

\* cards.sort(...) of _extract_deck_from_battle, done when every card has
\* a slot.  The sort is in place: the battle's roster stays sorted for the
\* builder, which always runs after the group's first battle was extracted.
SlotSorted(cards) ==
    IF \A i \in 1..Len(cards) : cards[i].slot # None
    THEN SortedBySlot(cards) ELSE cards

\* _extract_deck_from_battle
ExtractDeckFromBattle(battle) ==
    IF battle.team = <<>> THEN <<>>
    ELSE LET cards == SlotSorted(battle.team[1].cards)
         IN  [i \in 1..Len(cards) |-> cards[i].name]

\* _extract_event_data
ExtractEventData(battle) ==
    [event_type |-> ModeTable[battle.gameMode].event_type,
     event_name |-> ModeTable[battle.gameMode].event_name,
     battle_mode |-> battle.gameMode,
     deck_cards |-> ExtractDeckFromBattle(battle)]

\* the alphabetical order of the card names (str comparison)
CardNames ==
    <<"Archers", "Arrows", "Baby Dragon", "Balloon", "Bandit",
      "Barbarians", "Bats", "Bomber", "Cannon">>

NameRank(name) == CHOOSE i \in 1..Len(CardNames) : CardNames[i] = name

SortedByName(deck) ==
    SortedBy(deck, [i \in 1..Len(deck) |-> NameRank(deck[i])])

\* _is_same_deck_different_levels
IsSameDeckDifferentLevels_unsorted(deck1, deck2) ==
    IF Len(deck1) # Len(deck2) THEN FALSE
    ELSE deck1 = deck2

IsSameDeckDifferentLevels(deck1, deck2) ==
    IF Len(deck1) # Len(deck2) THEN FALSE
    ELSE SortedByName(deck1) = SortedByName(deck2)

\* _is_new_event; current_event is <<>> (None) or <<event_data>>
IsNewEvent_ge(battle, current_event, battle_time, last_battle_time) ==
    IF current_event = <<>> THEN TRUE
    ELSE IF last_battle_time # None /\ battle_time - last_battle_time >= OneHour
    THEN TRUE
    ELSE IF ExtractEventData(battle).event_type # current_event[1].event_type
    THEN TRUE
    ELSE IF battle.team # <<>>
            /\ current_event[1].deck_cards # ExtractDeckFromBattle(battle)
            /\ ~IsSameDeckDifferentLevels(current_event[1].deck_cards,
                                          ExtractDeckFromBattle(battle))
    THEN TRUE
    ELSE FALSE

IsNewEvent(battle, current_event, battle_time, last_battle_time) ==
    IF current_event = <<>> THEN TRUE
    ELSE IF last_battle_time # None /\ battle_time - last_battle_time > OneHour
    THEN TRUE
    ELSE IF ExtractEventData(battle).event_type # current_event[1].event_type
    THEN TRUE
    ELSE IF battle.team # <<>>
            /\ current_event[1].deck_cards # ExtractDeckFromBattle(battle)
            /\ ~IsSameDeckDifferentLevels(current_event[1].deck_cards,
                                          ExtractDeckFromBattle(battle))
    THEN TRUE
    ELSE FALSE

\* hash(tuple(sorted(deck_cards))): str hashes are keyed by the process's
\* hash seed.  Seed 0 sends every deck to the same value.
RECURSIVE WeightedSum(_, _)
WeightedSum(names, i) ==
    IF i > Len(names) THEN 0
    ELSE i * NameRank(names[i]) + WeightedSum(names, i + 1)

HashModulus == 1000

DeckHash(seed, deck_cards) ==
    IF deck_cards = <<>> THEN 0
    ELSE (seed * WeightedSum(SortedByName(deck_cards), 1)) % HashModulus

\* _generate_event_id: the three parts of the f-string
GenerateEventId(event_data, battle, seed, t) ==
    [name |-> ReplaceSpaces(Lower(event_data.event_name)),
     date |-> ParseBattleTime(battle.battleTime, t) \div MinutesPerDay,
     hash |-> DeckHash(seed, event_data.deck_cards)]

\* event_groups[event_id] = (current_event, current_battles) on a dict kept
\* as the sequence of its items in insertion order
DictSet(d, key, event_data, battles) ==
    LET item == [event_id |-> key, event_data |-> event_data, battles |-> battles]
    IN  IF \E i \in 1..Len(d) : d[i].event_id = key
        THEN [i \in 1..Len(d) |-> IF d[i].event_id = key THEN item ELSE d[i]]
        ELSE Append(d, item)

\* [b for b in battle_logs if self._is_event_battle(b)]
EventBattles(logs) == SelectSeq(logs, IsEventBattle)

BattleTimeKey(battle) == StringRank(battle.battleTime)

SortedByBattleTime(battles) ==
    SortedBy(battles, [i \in 1..Len(battles) |-> BattleTimeKey(battles[i])])

\* the loop of _group_battles_by_event over sorted_battles[i..]
RECURSIVE GroupLoop(_, _, _, _, _)
GroupLoop(sorted_battles, i, st, seed, t) ==
    IF i > Len(sorted_battles) THEN st
    ELSE
      LET battle == sorted_battles[i]
          battle_time == ParseBattleTime(battle.battleTime, t)
          st2 ==
            IF IsNewEvent(battle, st.current_event, battle_time, st.last_battle_time)
            THEN [event_groups |->
                      IF st.current_event # <<>> /\ st.current_battles # <<>>
                      THEN DictSet(st.event_groups,
                                   GenerateEventId(st.current_event[1],
                                                   st.current_battles[1], seed, t),
                                   st.current_event[1], st.current_battles)
                      ELSE st.event_groups,
                  current_event |-> <<ExtractEventData(battle)>>,
                  current_battles |-> <<battle>>,
                  last_battle_time |-> battle_time]
            ELSE [st EXCEPT !.current_battles = Append(st.current_battles, battle),
                            !.last_battle_time = battle_time]
      IN  GroupLoop(sorted_battles, i + 1, st2, seed, t)

\* _group_battles_by_event
GroupBattlesByEvent(logs, seed, t) ==
    LET sorted_battles == SortedByBattleTime(EventBattles(logs))
        st == GroupLoop(sorted_battles, 1,
                        [event_groups |-> <<>>, current_event |-> <<>>,
                         current_battles |-> <<>>, last_battle_time |-> None],
                        seed, t)
    IN  IF st.current_event # <<>> /\ st.current_battles # <<>>
        THEN DictSet(st.event_groups,
                     GenerateEventId(st.current_event[1], st.current_battles[1],
                                     seed, t),
                     st.current_event[1], st.current_battles)
        ELSE st.event_groups

(***************************************************************************)
(* battle_log_parser.py: the builder                                       *)
(***************************************************************************)
\* _create_battle_record; <<>> is None
CreateBattleRecord(battle, t) ==
    IF battle.team = <<>> \/ battle.opponent = <<>> THEN <<>>
    ELSE LET team_crowns == battle.team[1].crowns
             opponent_crowns == battle.opponent[1].crowns
         IN  << [timestamp |-> ParseBattleTime(battle.battleTime, t),
                 opponent_tag |-> battle.opponent[1].tag,
                 result |-> IF team_crowns > opponent_crowns THEN "win" ELSE "loss",
                 crowns |-> team_crowns,
                 opponent_crowns |-> opponent_crowns,
                 battle_mode |-> battle.gameMode] >>

\* the replay loop of _create_event_deck over battles[i..]
RECURSIVE AddAllBattles(_, _, _, _)
AddAllBattles(ed, battles, i, t) ==
    IF i > Len(battles) THEN ed
    ELSE LET battle_record == CreateBattleRecord(battles[i], t)
         IN  AddAllBattles(IF battle_record # <<>>
                           THEN AddBattle(ed, battle_record[1], t) ELSE ed,
                           battles, i + 1, t)

\* the max_wins table of _create_event_deck
MaxWinsFor(event_type) ==
    IF event_type = GRAND_CHALLENGE THEN 10
    ELSE IF event_type = CLASSIC_CHALLENGE THEN 12
    ELSE IF event_type = DRAFT_CHALLENGE THEN 12
    ELSE 20

\* total_elixir of _create_event_deck over cards_data[i..]
RECURSIVE TotalElixir(_, _)
TotalElixir(cards_data, i) ==
    IF i > Len(cards_data) THEN 0
    ELSE cards_data[i].elixirCost + TotalElixir(cards_data, i + 1)

\* _create_event_deck; <<>> is None, <<event_deck>> a session
CreateEventDeck_anyRoster(event_data, battles, seed, t) ==
    IF battles = <<>> THEN <<>>
    ELSE IF battles[1].team = <<>> THEN <<>>
    ELSE
      LET cards_data == SlotSorted(battles[1].team[1].cards)
          fresh == [event_id |-> GenerateEventId(event_data, battles[1], seed, t),
                    event_name |-> event_data.event_name,
                    event_type |-> event_data.event_type,
                    start_time |-> ParseBattleTime(battles[1].battleTime, t),
                    end_time |-> None,
                    deck |-> [cards |-> [i \in 1..Len(cards_data) |->
                                           [name |-> cards_data[i].name,
                                            level |-> cards_data[i].level,
                                            elixir_cost |-> cards_data[i].elixirCost]],
                              avg_elixir |-> <<TotalElixir(cards_data, 1), 8>>],
                    performance |-> EventPerformance,
                    battles |-> <<>>,
                    event_rules |-> [battle_mode |-> event_data.battle_mode,
                                     is_ladder |-> FALSE]]
          replayed == AddAllBattles(fresh, battles, 1, t)
          capped == [replayed EXCEPT
                        !.performance.max_wins = MaxWinsFor(event_data.event_type)]
      IN  << UpdateProgress(capped, t) >>

CreateEventDeck(event_data, battles, seed, t) ==
    IF battles = <<>> THEN <<>>
    ELSE IF battles[1].team = <<>> THEN <<>>
    ELSE IF Len(battles[1].team[1].cards) # 8 THEN <<>>
    ELSE
      LET cards_data == SlotSorted(battles[1].team[1].cards)
          fresh == [event_id |-> GenerateEventId(event_data, battles[1], seed, t),
                    event_name |-> event_data.event_name,
                    event_type |-> event_data.event_type,
                    start_time |-> ParseBattleTime(battles[1].battleTime, t),
                    end_time |-> None,
                    deck |-> [cards |-> [i \in 1..8 |->
                                           [name |-> cards_data[i].name,
                                            level |-> cards_data[i].level,
                                            elixir_cost |-> cards_data[i].elixirCost]],
                              avg_elixir |-> <<TotalElixir(cards_data, 1), 8>>],
                    performance |-> EventPerformance,
                    battles |-> <<>>,
                    event_rules |-> [battle_mode |-> event_data.battle_mode,
                                     is_ladder |-> FALSE]]
          replayed == AddAllBattles(fresh, battles, 1, t)
          capped == [replayed EXCEPT
                        !.performance.max_wins = MaxWinsFor(event_data.event_type)]
      IN  << UpdateProgress(capped, t) >>

\* the loop of parse_battle_logs over event_groups.items()
RECURSIVE CreateAll(_, _, _, _)
CreateAll(groups, i, seed, t) ==
    IF i > Len(groups) THEN <<>>
    ELSE CreateEventDeck(groups[i].event_data, groups[i].battles, seed, t)
            \o CreateAll(groups, i + 1, seed, t)

(***************************************************************************)
(* models/event_deck.py: EventDeckCollection                               *)
(***************************************************************************)
\* EventDeckCollection(player_tag=...): the field defaults, with t the value
\* of datetime.now()
EventDeckCollection(t) == [decks |-> <<>>, last_updated |-> t]

\* EventDeckCollection.add_deck
AddDeck_append(c, deck, t) ==
    [decks |-> Append(c.decks, deck), last_updated |-> t]

AddDeck(c, deck, t) ==
    LET hits == { i \in 1..Len(c.decks) : c.decks[i].event_id = deck.event_id }
    IN  IF hits # {}
        THEN [decks |-> [c.decks EXCEPT ![Min(hits)] = deck], last_updated |-> t]
        ELSE [decks |-> Append(c.decks, deck), last_updated |-> t]

(***************************************************************************)
(* event_deck_manager.py: the store                                        *)
(***************************************************************************)
\* the subdirectory of save_event_deck and of get_event_decks
Subdir(event_type) ==
    IF event_type = TOURNAMENT THEN "tournaments"
    ELSE IF event_type = SPECIAL_EVENT THEN "special_events"
    ELSE "challenges"

\* str.replace("/", "_")
ReplaceSlashes(s) == [i \in 1..Len(s) |-> IF s[i] = "/" THEN "_" ELSE s[i]]

\* the filepath of save_event_deck: subdir / f"{timestamp}_{event_name}.json"
FilePath(ed) ==
    [subdir |-> Subdir(ed.event_type),
     date |-> ed.start_time \div MinutesPerDay,
     event_name |-> ReplaceSlashes(ReplaceSpaces(Lower(ed.event_name)))]

\* json.dump(..., default=str) of a datetime and its parse by the model
\* class: the text <<day, minute>>, and <<>> for null
DumpTime(t) ==
    IF t = None THEN <<>> ELSE <<t \div MinutesPerDay, t % MinutesPerDay>>

LoadTime(text) ==
    IF text = <<>> THEN None ELSE text[1] * MinutesPerDay + text[2]

\* json.dump(event_deck.dict(), f, indent=2, default=str)
DumpEventDeck(ed) ==
    [ed EXCEPT !.start_time = DumpTime(ed.start_time),
               !.end_time = DumpTime(ed.end_time),
               !.battles = [i \in 1..Len(ed.battles) |->
                              [ed.battles[i] EXCEPT
                                 !.timestamp = DumpTime(ed.battles[i].timestamp)]]]

\* EventDeck(**data)
LoadEventDeck(data) ==
    [data EXCEPT !.start_time = LoadTime(data.start_time),
                 !.end_time = LoadTime(data.end_time),
                 !.battles = [i \in 1..Len(data.battles) |->
                                [data.battles[i] EXCEPT
                                   !.timestamp = LoadTime(data.battles[i].timestamp)]]]

\* json.dump(collection.dict(), f, indent=2, default=str)
DumpCollection(c) ==
    [decks |-> [i \in 1..Len(c.decks) |-> DumpEventDeck(c.decks[i])],
     last_updated |-> DumpTime(c.last_updated)]

\* EventDeckCollection(**data)
LoadCollection(data) ==
    [decks |-> [i \in 1..Len(data.decks) |-> LoadEventDeck(data.decks[i])],
     last_updated |-> LoadTime(data.last_updated)]

\* open(path, "w") and the dump: the file at path then holds text, where
\* text is <<>> for a file left truncated and <<data>> for a document
WriteFile(fs, path, text) ==
    { f \in fs : f.path # path } \cup { [path |-> path, text |-> text] }

\* how a save ends: without an error, with open() of the session document
\* failing, with its dump failing, with open() of collection.json failing,
\* or with the dump of collection.json failing
Outcomes ==
    {"ok", "open_error", "write_error", "collection_error", "collection_write_error"}

LogLine(level, msg) == [level |-> level, msg |-> msg]

\* collection.json is absent, or holds text as a session document does
NoCollectionFile == [exists |-> FALSE, text |-> <<>>]

\* the load of _update_collection_file that forgets what the file holds
LoadedCollection_fresh(cf, t) == EventDeckCollection(t)

\* the load of _update_collection_file: the collection read from the file,
\* or a new one when the file is missing or cannot be loaded
LoadedCollection(cf, t) ==
    IF cf.exists /\ cf.text # <<>> THEN LoadCollection(cf.text[1])
    ELSE EventDeckCollection(t)

\* _update_collection_file; raised is TRUE when it ends with an exception
UpdateCollectionFile(cf, event_deck_, t, outcome) ==
    LET loaded == cf.exists /\ cf.text # <<>>
        c == IF loaded THEN LoadCollection(cf.text[1]) ELSE EventDeckCollection(t)
        warned == IF cf.exists /\ ~loaded
                  THEN <<LogLine("warning", "Could not load collection file")>>
                  ELSE <<>>
        added == AddDeck(c, event_deck_, t)
    IN  IF outcome = "collection_error"
        THEN [collection_file |-> cf, raised |-> TRUE, log |-> warned]
        ELSE IF outcome = "collection_write_error"
        THEN [collection_file |-> [exists |-> TRUE, text |-> <<>>],
              raised |-> TRUE, log |-> warned]
        ELSE [collection_file |-> [exists |-> TRUE, text |-> <<DumpCollection(added)>>],
              raised |-> FALSE, log |-> warned]

\* save_event_deck; raised is TRUE when it ends with an exception
SaveEventDeck(fs, cf, event_deck_, t, outcome) ==
    IF outcome = "open_error"
    THEN [files |-> fs, collection_file |-> cf, raised |-> TRUE,
          log |-> <<LogLine("error", "Failed to save event deck")>>]
    ELSE IF outcome = "write_error"
    THEN [files |-> WriteFile(fs, FilePath(event_deck_), <<>>),
          collection_file |-> cf, raised |-> TRUE,
          log |-> <<LogLine("error", "Failed to save event deck")>>]
    ELSE LET u == UpdateCollectionFile(cf, event_deck_, t, outcome)
         IN  [files |-> WriteFile(fs, FilePath(event_deck_),
                                  <<DumpEventDeck(event_deck_)>>),
              collection_file |-> u.collection_file,
              raised |-> u.raised,
              log |-> <<LogLine("info", "Saved event deck")>> \o u.log]

\* None in Optional[EventType]
NoEventType == "none"

\* the subdirectories searched by get_event_decks, in order
SearchedSubdirs(event_type) ==
    IF event_type # NoEventType
    THEN <<Subdir(event_type)>>
    ELSE <<"challenges", "tournaments", "special_events">>

\* the orders in which glob can list the files of a directory tree
Orderings(S) ==
    { s \in [1..Cardinality(S) -> S] :
        \A i, j \in 1..Cardinality(S) : i # j => s[i] # s[j] }

\* the loading loop of get_event_decks over subdirs[k..]; listing is the
\* order in which glob yields the files
RECURSIVE LoadDecks(_, _, _, _, _)
LoadDecks(listing, subdirs, k, days_back, t) ==
    IF k > Len(subdirs) THEN <<>>
    ELSE
      LET kept(f) ==
            /\ f.path.subdir = subdirs[k]
            /\ f.text # <<>>
            /\ Truthy(days_back)
                  => ~(LoadEventDeck(f.text[1]).start_time
                          < t - days_back * MinutesPerDay)
          in_subdir == SelectSeq(listing, kept)
      IN  [i \in 1..Len(in_subdir) |-> LoadEventDeck(in_subdir[i].text[1])]
             \o LoadDecks(listing, subdirs, k + 1, days_back, t)

\* decks.sort(key=lambda d: d.start_time, reverse=True)
SortedNewestFirst(decks) ==
    SortedBy(decks, [i \in 1..Len(decks) |-> 0 - decks[i].start_time])

\* decks[:limit]
Truncate(decks, limit) == SubSeq(decks, 1, IF limit < Len(decks) THEN limit ELSE Len(decks))

\* get_event_decks
GetEventDecks(listing, event_type, days_back, limit, t) ==
    LET decks == SortedNewestFirst(
                    LoadDecks(listing, SearchedSubdirs(event_type), 1, days_back, t))
    IN  IF Truthy(limit) THEN Truncate(decks, limit) ELSE decks

\* the loop of import_from_battle_logs over event_decks[i..]
RECURSIVE ImportLoop(_, _, _, _, _)
ImportLoop_abort(decks, i, st, t, outcomes) ==
    IF i > Len(decks) THEN st
    ELSE
      LET saved == SaveEventDeck(st.files, st.collection_file, decks[i], t,
                                 outcomes[i])
          st2 == [files |-> saved.files,
                  collection_file |-> saved.collection_file,
                  imported |-> IF saved.raised THEN st.imported
                               ELSE Append(st.imported, decks[i]),
                  log |-> st.log \o saved.log \o
                          << IF saved.raised
                             THEN LogLine("error", "Failed to import event deck")
                             ELSE LogLine("info", "Imported event deck") >>]
      IN  IF saved.raised THEN st2 ELSE ImportLoop(decks, i + 1, st2, t, outcomes)

ImportLoop(decks, i, st, t, outcomes) ==
    IF i > Len(decks) THEN st
    ELSE
      LET saved == SaveEventDeck(st.files, st.collection_file, decks[i], t,
                                 outcomes[i])
          st2 == [files |-> saved.files,
                  collection_file |-> saved.collection_file,
                  imported |-> IF saved.raised THEN st.imported
                               ELSE Append(st.imported, decks[i]),
                  log |-> st.log \o saved.log \o
                          << IF saved.raised
                             THEN LogLine("error", "Failed to import event deck")
                             ELSE LogLine("info", "Imported event deck") >>]
      IN  ImportLoop(decks, i + 1, st2, t, outcomes)

\* import_from_battle_logs, after the parse that gave decks
ImportFromBattleLogs(decks, fs, cf, t, outcomes) ==
    ImportLoop(decks, 1,
               [files |-> fs, collection_file |-> cf, imported |-> <<>>,
                log |-> <<>>],
               t, outcomes)

(***************************************************************************)
(* event_deck_manager.py: analyze_event_decks.  A ratio is the pair        *)
(* <<numerator, denominator>> with a positive denominator.  Of the         *)
(* returned dict the entries summary, card_analysis and                    *)
(* top_performing_decks are modelled.                                      *)
(***************************************************************************)
\* a >= b for ratios
RatioGE(a, b) == a[1] * b[2] >= b[1] * a[2]

\* the insertion of index i into perm, a list of indices in descending
\* ratio order: after every index whose ratio is >= ratio[i]
RECURSIVE InsertByRatio(_, _, _)
InsertByRatio(perm, ratio, i) ==
    IF perm = <<>> THEN <<i>>
    ELSE IF RatioGE(ratio[perm[Len(perm)]], ratio[i]) THEN Append(perm, i)
    ELSE Append(InsertByRatio(SubSeq(perm, 1, Len(perm) - 1), ratio, i),
                perm[Len(perm)])

RECURSIVE RatioSortedIndices(_, _)
RatioSortedIndices(ratio, n) ==
    IF n = 0 THEN <<>> ELSE InsertByRatio(RatioSortedIndices(ratio, n - 1), ratio, n)

\* sorted(s, key=ratio, reverse=True): equal keys keep their order
SortedByRatioDesc(s, ratio) ==
    LET perm == RatioSortedIndices(ratio, Len(s))
    IN  [i \in 1..Len(s) |-> s[perm[i]]]

\* sum(f(d) for d in decks), over decks[i..], of a performance counter
RECURSIVE SumWins(_, _)
SumWins(decks, i) ==
    IF i > Len(decks) THEN 0
    ELSE decks[i].performance.wins + SumWins(decks, i + 1)

RECURSIVE SumLosses(_, _)
SumLosses(decks, i) ==
    IF i > Len(decks) THEN 0
    ELSE decks[i].performance.losses + SumLosses(decks, i + 1)

RECURSIVE SumCrownsEarned(_, _)
SumCrownsEarned(decks, i) ==
    IF i > Len(decks) THEN 0
    ELSE decks[i].performance.crowns_earned + SumCrownsEarned(decks, i + 1)

RECURSIVE SumElixir(_, _)
SumElixir(decks, i) ==
    IF i > Len(decks) THEN 0
    ELSE decks[i].deck.avg_elixir[1] + SumElixir(decks, i + 1)

\* the sessions ranked as best performing: at least 3 battles, by win rate
PerformingDecks_all(decks) ==
    Truncate(SortedByRatioDesc(decks,
                 [i \in 1..Len(decks) |-> decks[i].performance.win_rate]), 5)

PerformingDecks(decks) ==
    LET qualified(d) == d.performance.wins + d.performance.losses >= 3
        kept == SelectSeq(decks, qualified)
    IN  Truncate(SortedByRatioDesc(kept,
                    [i \in 1..Len(kept) |-> kept[i].performance.win_rate]), 5)

\* the (card, deck) visits of the loops `for deck in decks` and
\* `for card in deck.deck.cards`, over decks[i..]
RECURSIVE CardVisits(_, _)
CardVisits(decks, i) ==
    IF i > Len(decks) THEN <<>>
    ELSE [j \in 1..Len(decks[i].deck.cards) |->
             [name |-> decks[i].deck.cards[j].name,
              wins |-> decks[i].performance.wins,
              losses |-> decks[i].performance.losses]]
            \o CardVisits(decks, i + 1)

\* card_usage, card_wins and card_losses after the visits[i..]: the dicts
\* share their keys, kept as one sequence of items in insertion order
RECURSIVE CardLoop(_, _, _)
CardLoop(visits, i, d) ==
    IF i > Len(visits) THEN d
    ELSE LET v == visits[i]
             d2 == IF \E k \in 1..Len(d) : d[k].name = v.name
                   THEN [k \in 1..Len(d) |->
                           IF d[k].name = v.name
                           THEN [d[k] EXCEPT !.usage = @ + 1,
                                             !.wins = @ + v.wins,
                                             !.losses = @ + v.losses]
                           ELSE d[k]]
                   ELSE Append(d, [name |-> v.name, usage |-> 1,
                                   wins |-> v.wins, losses |-> v.losses])
         IN  CardLoop(visits, i + 1, d2)

\* card_win_rates: the cards with a battle, in card_usage order
CardWinRates(cards) ==
    LET played(c) == c.wins + c.losses > 0
        kept == SelectSeq(cards, played)
    IN  [i \in 1..Len(kept) |->
            [name |-> kept[i].name,
             win_rate |-> <<kept[i].wins, kept[i].wins + kept[i].losses>>]]

\* f"{x:.2%}": the hundredths of a percent, rounded half to even
FormatPercent(ratio) ==
    LET q == (ratio[1] * 10000) \div ratio[2]
        r == (ratio[1] * 10000) % ratio[2]
    IN  IF 2 * r > ratio[2] \/ (2 * r = ratio[2] /\ q % 2 = 1) THEN q + 1 ELSE q

\* analyze_event_decks(player_tag, event_type); listing is the order in
\* which glob yields the files to its get_event_decks call
AnalyzeEventDecks(listing, event_type, t) ==
    LET decks == GetEventDecks(listing, event_type, None, None, t)
    IN
    IF decks = <<>> THEN [error |-> "No event decks found"]
    ELSE
      LET total_wins == SumWins(decks, 1)
          total_losses == SumLosses(decks, 1)
          total_battles == total_wins + total_losses
          card_usage == CardLoop(CardVisits(decks, 1), 1, <<>>)
          card_win_rates == CardWinRates(card_usage)
          most_used_cards ==
              Truncate(SortedBy(card_usage,
                         [i \in 1..Len(card_usage) |-> 0 - card_usage[i].usage]), 10)
          best_cards ==
              Truncate(SortedByRatioDesc(card_win_rates,
                         [i \in 1..Len(card_win_rates) |->
                            card_win_rates[i].win_rate]), 10)
          performing_decks == PerformingDecks(decks)
      IN  [summary |->
             [total_decks |-> Len(decks),
              total_battles |-> total_battles,
              overall_win_rate |-> <<total_wins, Max(1, total_wins + total_losses)>>,
              avg_crowns_per_battle |->
                  <<SumCrownsEarned(decks, 1), Max(1, total_battles)>>,
              avg_deck_elixir |-> <<SumElixir(decks, 1), 8 * Len(decks)>>],
           card_analysis |->
             [most_used_cards |->
                  [i \in 1..Len(most_used_cards) |->
                     <<most_used_cards[i].name, most_used_cards[i].usage>>],
              highest_win_rate_cards |->
                  [i \in 1..Len(best_cards) |->
                     <<best_cards[i].name, best_cards[i].win_rate>>],
              total_unique_cards |-> Len(card_usage)],
           top_performing_decks |->
             [i \in 1..Len(performing_decks) |->
                [event_name |-> performing_decks[i].event_name,
                 event_type |-> performing_decks[i].event_type,
                 win_rate |-> FormatPercent(performing_decks[i].performance.win_rate),
                 record |-> <<performing_decks[i].performance.wins,
                              performing_decks[i].performance.losses>>,
                 deck |-> [j \in 1..Len(performing_decks[i].deck.cards) |->
                             performing_decks[i].deck.cards[j].name],
                 avg_elixir |-> performing_decks[i].deck.avg_elixir]]]

(***************************************************************************)
(* The session machine: one EventDeck, built with a max_wins and an        *)
(* end_time, then fed battles by add_battle while the clock advances.      *)
(***************************************************************************)
\* the values of the builder's max-wins table, and the field default
MaxWinsValues == {None, 10, 12, 20}

\* EventDeck.end_time: Optional[datetime]
EndTimeValues == {None, 0}

\* the BattleRecords handed to add_battle
SessionBattles ==
    { [timestamp |-> 0, opponent_tag |-> "#OPP", result |-> "win",
       crowns |-> 2, opponent_crowns |-> 1, battle_mode |-> <<"Grand", " ", "Challenge">>],
      [timestamp |-> 0, opponent_tag |-> "#OPP", result |-> "loss",
       crowns |-> 1, opponent_crowns |-> 2, battle_mode |-> <<"Grand", " ", "Challenge">>] }

NewEventDeck(max_wins, end_time) ==
    [event_id |-> [name |-> <<"grand", "_", "challenge">>, date |-> 0, hash |-> 0],
     event_name |-> <<"Grand", " ", "Challenge">>,
     event_type |-> GRAND_CHALLENGE, start_time |-> 0, end_time |-> end_time,
     deck |-> [cards |-> <<>>, avg_elixir |-> <<0, 8>>],
     performance |-> [EventPerformance EXCEPT !.max_wins = max_wins],
     battles |-> <<>>,
     event_rules |-> [battle_mode |-> <<"Grand", " ", "Challenge">>,
                      is_ladder |-> FALSE]]

ParserIdle ==
    /\ battle_logs = <<>>
    /\ hash_seed = 0
    /\ pc = "input"
    /\ event_groups = <<>>
    /\ event_decks = <<>>

\* nothing stored, no call made
StoreIdle ==
    /\ collection = EventDeckCollection(0)
    /\ files = {}
    /\ collection_file = NoCollectionFile
    /\ imported = <<>>
    /\ log = <<>>
    /\ result = <<>>
    /\ runs = <<>>
    /\ writers = <<>>

Init ==
    /\ \E mw \in MaxWinsValues, et \in EndTimeValues :
          event_deck = NewEventDeck(mw, et)
    /\ now = 0
    /\ ParserIdle
    /\ StoreIdle

add_battle ==
    /\ Len(event_deck.battles) < MaxBattles
    /\ \E battle \in SessionBattles : event_deck' = AddBattle(event_deck, battle, now)
    /\ UNCHANGED <<now, battle_logs, hash_seed, pc, event_groups, event_decks>>
    /\ UNCHANGED store_vars

Tick ==
    /\ now < MaxNow
    /\ now' = now + 1
    /\ UNCHANGED <<event_deck, battle_logs, hash_seed, pc, event_groups, event_decks>>
    /\ UNCHANGED store_vars

Next == add_battle \/ Tick

Spec == Init /\ [][Next]_vars

(***************************************************************************)
(* The parser: a battle log is received battle by battle, then             *)
(* parse_battle_logs runs on it.                                           *)
(***************************************************************************)
NamesA ==
    <<"Archers", "Arrows", "Baby Dragon", "Balloon", "Bandit",
      "Barbarians", "Bats", "Bomber">>

NamesB ==
    <<"Archers", "Arrows", "Baby Dragon", "Balloon", "Bandit",
      "Barbarians", "Bats", "Cannon">>

Card(name, level, elixir, slot) ==
    [name |-> name, level |-> level, elixirCost |-> elixir, slot |-> slot]

DeckA == [i \in 1..8 |-> Card(NamesA[i], 11, 3, None)]
\* DeckA with one card a level higher
DeckA_lvl == [i \in 1..8 |-> Card(NamesA[i], IF i = 1 THEN 12 ELSE 11, 3, None)]
\* DeckA with the first two cards exchanged
DeckA_perm ==
    [i \in 1..8 |-> Card(NamesA[IF i = 1 THEN 2 ELSE IF i = 2 THEN 1 ELSE i],
                         11, 3, None)]
\* DeckA listed backwards, every card carrying its slot
DeckA_slots == [i \in 1..8 |-> Card(NamesA[9 - i], 11, 3, 8 - i)]
DeckB == [i \in 1..8 |-> Card(NamesB[i], 11, 4, None)]
Deck7 == [i \in 1..7 |-> Card(NamesA[i], 11, 3, None)]

\* one entry of the API's battle log; a missing isLadderBattle is its
\* default True, a missing team or opponent is the default []
Battle(tag, battleTime, mode, team, own, opp, isLadder) ==
    [battleTime |-> battleTime,
     gameMode |-> mode,
     team |-> [i \in 1..Len(team) |->
                  [cards |-> team[i], crowns |-> own]],
     opponent |-> << [tag |-> tag, crowns |-> opp] >>,
     isLadderBattle |-> isLadder]

\* an entry without opponent data
WithoutOpponent(battle) == [battle EXCEPT !.opponent = <<>>]

BattleUniverse ==
    << Battle(1, <<0, 540>>, GrandChallenge, <<DeckA>>, 2, 1, TRUE),
       Battle(2, <<0, 550>>, GrandChallenge, <<DeckA_slots>>, 3, 0, TRUE),
       Battle(3, <<0, 565>>, GrandChallenge, <<DeckA_lvl>>, 0, 1, TRUE),
       Battle(4, <<0, 600>>, GrandChallenge, <<DeckA_perm>>, 1, 0, TRUE),
       Battle(5, <<0, 601>>, GrandChallenge, <<DeckA>>, 1, 2, TRUE),
       Battle(6, <<0, 550>>, ClassicChallenge, <<DeckB>>, 2, 0, TRUE),
       Battle(7, <<0, 565>>, Ladder, <<DeckA>>, 2, 1, TRUE),
       Battle(8, <<>>, GrandChallenge, <<DeckA>>, 1, 0, TRUE),
       Battle(9, <<0, 565>>, DraftChallenge, << <<>> >>, 1, 0, TRUE),
       Battle(10, <<0, 565>>, Ladder, <<DeckB>>, 0, 3, FALSE),
       Battle(11, <<1, 540>>, RoyaleTournament, <<Deck7>>, 1, 1, TRUE),
       Battle(12, <<0, 550>>, GrandChallenge, <<>>, 0, 0, TRUE),
       Battle(13, <<0, 601>>, Ladder, <<DeckA, <<>> >>, 2, 0, TRUE),
       Battle(14, <<1, 540>>, DraftChallenge, <<DeckB>>, 3, 2, TRUE),
       WithoutOpponent(Battle(15, <<0, 565>>, GrandChallenge, <<DeckA>>, 1, 0, TRUE)),
       Battle(16, <<0, 550>>, RoyaleTournament, <<DeckA>>, 2, 0, TRUE),
       Battle(17, <<0, 550>>, ClassicChallenge, <<DeckA_perm>>, 0, 2, TRUE) >>

\* datetime.now() while the parser runs: after every stamp of the log
NowAtParse == 3 * MinutesPerDay + 700

InSeq(x, s) == \E i \in 1..Len(s) : s[i] = x

InitParse ==
    /\ event_deck = NewEventDeck(None, None)
    /\ now = NowAtParse
    /\ battle_logs = <<>>
    /\ hash_seed \in 0..MaxSeed
    /\ pc = "input"
    /\ event_groups = <<>>
    /\ event_decks = <<>>
    /\ StoreIdle

\* the next entry of the battle log arrives (an entry occurs once)
ReceiveBattle ==
    /\ pc = "input"
    /\ Len(battle_logs) < MaxLogs
    /\ \E k \in 1..Len(BattleUniverse) :
          /\ ~InSeq(BattleUniverse[k], battle_logs)
          /\ battle_logs' = Append(battle_logs, BattleUniverse[k])
    /\ UNCHANGED <<event_deck, now, hash_seed, pc, event_groups, event_decks>>
    /\ UNCHANGED store_vars

parse_battle_logs ==
    /\ pc = "input"
    /\ pc' = "parsed"
    /\ event_groups' = GroupBattlesByEvent(battle_logs, hash_seed, now)
    /\ event_decks' = CreateAll(event_groups', 1, hash_seed, now)
    /\ UNCHANGED <<event_deck, now, battle_logs, hash_seed>>
    /\ UNCHANGED store_vars

NextParse == ReceiveBattle \/ parse_battle_logs

SpecParse == InitParse /\ [][NextParse]_vars

(***************************************************************************)
(* The continued group: battles at 09:00, 09:10, 09:25 and then every      *)
(* five minutes, same deck, mode "Grand Challenge", each won or lost.      *)
(***************************************************************************)
ExampleTime(k) ==
    IF k = 1 THEN 540 ELSE IF k = 2 THEN 550 ELSE 565 + 5 * (k - 3)

ExampleBattle(k, won) ==
    Battle(100 + k, <<0, ExampleTime(k)>>, GrandChallenge, <<DeckA>>,
           IF won THEN 2 ELSE 1, IF won THEN 1 ELSE 2, TRUE)

ReceiveExampleBattle ==
    /\ pc = "input"
    /\ Len(battle_logs) < MaxExample
    /\ \E won \in BOOLEAN :
          battle_logs' = Append(battle_logs,
                                ExampleBattle(Len(battle_logs) + 1, won))
    /\ UNCHANGED <<event_deck, now, hash_seed, pc, event_groups, event_decks>>
    /\ UNCHANGED store_vars

NextExample == ReceiveExampleBattle \/ parse_battle_logs

SpecExample == InitParse /\ [][NextExample]_vars

(***************************************************************************)
(* The import: a window of the battle log is received, then                *)
(* import_from_battle_logs parses it and saves every session, each save    *)
(* ending in one of Outcomes.                                              *)
(***************************************************************************)
ImportUniverse ==
    << BattleUniverse[1], BattleUniverse[3], BattleUniverse[6], BattleUniverse[11] >>

ReceiveWindowBattle ==
    /\ pc = "input"
    /\ Len(battle_logs) < MaxWindow
    /\ \E k \in 1..Len(ImportUniverse) :
          /\ ~InSeq(ImportUniverse[k], battle_logs)
          /\ battle_logs' = Append(battle_logs, ImportUniverse[k])
    /\ UNCHANGED <<event_deck, now, hash_seed, pc, event_groups, event_decks>>
    /\ UNCHANGED store_vars

import_from_battle_logs ==
    /\ pc = "input"
    /\ pc' = "parsed"
    /\ event_groups' = GroupBattlesByEvent(battle_logs, hash_seed, now)
    /\ event_decks' = CreateAll(event_groups', 1, hash_seed, now)
    /\ \E outcomes \in [1..Len(event_decks') -> Outcomes] :
          LET st == ImportFromBattleLogs(event_decks', files, collection_file,
                                         now, outcomes)
          IN  /\ files' = st.files
              /\ collection_file' = st.collection_file
              /\ imported' = st.imported
              /\ log' = st.log
    /\ result' = <<>>
    /\ UNCHANGED <<event_deck, now, battle_logs, hash_seed, collection, runs, writers>>

NextImport == ReceiveWindowBattle \/ import_from_battle_logs

SpecImport == InitParse /\ [][NextImport]_vars

(***************************************************************************)
(* The re-import: imports whose saves all succeed, each in a run of its    *)
(* own; a later run is the same process or a new one (a new hash seed).    *)
(***************************************************************************)
import_without_failure ==
    /\ pc = "input"
    /\ pc' = "parsed"
    /\ event_groups' = GroupBattlesByEvent(battle_logs, hash_seed, now)
    /\ event_decks' = CreateAll(event_groups', 1, hash_seed, now)
    /\ LET st == ImportFromBattleLogs(event_decks', files, collection_file, now,
                                      [i \in 1..Len(event_decks') |-> "ok"])
       IN  /\ files' = st.files
           /\ collection_file' = st.collection_file
           /\ imported' = st.imported
           /\ log' = st.log
    /\ result' = <<>>
    /\ UNCHANGED <<event_deck, now, battle_logs, hash_seed, collection, runs, writers>>

NewRun ==
    /\ pc = "parsed"
    /\ Len(runs) < MaxRuns
    /\ runs' = Append(runs, [battle_logs |-> battle_logs, hash_seed |-> hash_seed,
                             event_groups |-> event_groups,
                             event_decks |-> event_decks])
    /\ hash_seed' \in 0..MaxSeed
    /\ pc' = "input"
    /\ battle_logs' = <<>>
    /\ event_groups' = <<>>
    /\ event_decks' = <<>>
    /\ imported' = <<>>
    /\ log' = <<>>
    /\ UNCHANGED <<event_deck, now, collection, files, collection_file, result,
                   writers>>

NextReimport == ReceiveWindowBattle \/ import_without_failure \/ NewRun

SpecReimport == InitParse /\ [][NextReimport]_vars

(***************************************************************************)
(* The collection: add_deck calls on an EventDeckCollection that starts    *)
(* empty, while the clock advances.                                        *)
(***************************************************************************)
\* an EventDeck as a caller of add_deck or save_event_deck holds it
StoredDeck(event_name, event_type, start_time, hash, wins) ==
    [event_id |-> [name |-> ReplaceSpaces(Lower(event_name)),
                   date |-> start_time \div MinutesPerDay, hash |-> hash],
     event_name |-> event_name,
     event_type |-> event_type, start_time |-> start_time, end_time |-> None,
     deck |-> [cards |-> <<>>, avg_elixir |-> <<0, 8>>],
     performance |-> [EventPerformance EXCEPT !.wins = wins, !.max_wins = 20],
     battles |-> <<>>,
     event_rules |-> [battle_mode |-> event_name, is_ladder |-> FALSE]]

SuddenDeath == <<"Sudden", " ", "Death">>

\* two Grand Challenge sessions of day 0 with different decks, the first of
\* them again with more wins, a Sudden Death session that started with the
\* first, and a tournament session of day 1
StoreDecks ==
    { StoredDeck(GrandChallenge, CHALLENGE, 540, 201, 1),
      StoredDeck(GrandChallenge, CHALLENGE, 780, 16, 0),
      StoredDeck(GrandChallenge, CHALLENGE, 540, 201, 3),
      StoredDeck(SuddenDeath, SUDDEN_DEATH, 540, 201, 2),
      StoredDeck(RoyaleTournament, TOURNAMENT, MinutesPerDay + 540, 16, 0) }

InitCollection ==
    /\ event_deck = NewEventDeck(None, None)
    /\ now = 0
    /\ ParserIdle
    /\ StoreIdle

add_deck ==
    /\ \E deck \in StoreDecks : collection' = AddDeck(collection, deck, now)
    /\ UNCHANGED <<event_deck, now, battle_logs, hash_seed, pc, event_groups,
                   event_decks>>
    /\ UNCHANGED <<files, collection_file, imported, log, result, runs, writers>>

NextCollection == add_deck \/ Tick

SpecCollection == InitCollection /\ [][NextCollection]_vars

(***************************************************************************)
(* The store: sessions are saved with save_event_deck and queried with     *)
(* get_event_decks.                                                        *)
(***************************************************************************)
\* datetime.now() while the store is used: noon of day 1
StoreNow == MinutesPerDay + 720

\* the event_type arguments of get_event_decks
QueryTypes ==
    {NoEventType, CHALLENGE, GRAND_CHALLENGE, SUDDEN_DEATH, TOURNAMENT,
     SPECIAL_EVENT}

InitStore ==
    /\ event_deck = NewEventDeck(None, None)
    /\ now = StoreNow
    /\ ParserIdle
    /\ StoreIdle

save_event_deck ==
    /\ \E deck \in StoreDecks :
          LET saved == SaveEventDeck(files, collection_file, deck, now, "ok")
          IN  /\ files' = saved.files
              /\ collection_file' = saved.collection_file
              /\ log' = saved.log
    /\ result' = <<>>
    /\ UNCHANGED <<event_deck, now, battle_logs, hash_seed, pc, event_groups,
                   event_decks>>
    /\ UNCHANGED <<collection, imported, runs, writers>>

\* a query reads the store and changes nothing in it: it is made on the
\* store as the last save left it
get_event_decks ==
    /\ result = <<>>
    /\ \E event_type \in QueryTypes,
          days_back \in {None} \cup 0..MaxDaysBack,
          limit \in {None} \cup 0..MaxLimit,
          listing \in Orderings(files) :
          result' = << [event_type |-> event_type, days_back |-> days_back,
                        limit |-> limit,
                        decks |-> GetEventDecks(listing, event_type, days_back,
                                                limit, now)] >>
    /\ log' = <<>>
    /\ UNCHANGED <<event_deck, now, battle_logs, hash_seed, pc, event_groups,
                   event_decks>>
    /\ UNCHANGED <<collection, files, collection_file, imported, runs, writers>>

NextStore == save_event_deck \/ get_event_decks

SpecStore == InitStore /\ [][NextStore]_vars

(***************************************************************************)
(* The analysis: sessions built by the parser are saved, and               *)
(* analyze_event_decks reports on the store.                               *)
(***************************************************************************)
\* the battles of one session: one per outcome, five minutes apart, and for
\* no outcome a single battle without opponent data, which is not recorded
SessionLog(tag, day, mode, deck, outcomes) ==
    IF outcomes = <<>>
    THEN << WithoutOpponent(Battle(tag, <<day, 540>>, mode, <<deck>>, 1, 0, TRUE)) >>
    ELSE [k \in 1..Len(outcomes) |->
            Battle(tag + k, <<day, 540 + 5 * k>>, mode, <<deck>>,
                   IF outcomes[k] THEN 2 ELSE 1, IF outcomes[k] THEN 1 ELSE 2, TRUE)]

\* the session parse_battle_logs builds from such a log
BuiltSession(tag, day, mode, deck, outcomes) ==
    LET battles == SessionLog(tag, day, mode, deck, outcomes)
    IN  CreateEventDeck(ExtractEventData(battles[1]), battles, 0, NowAtParse)[1]

\* 3-0, 1-1, 2-2, no battle, 2-1
AnalysedSessions ==
    { BuiltSession(200, 0, GrandChallenge, DeckA, <<TRUE, TRUE, TRUE>>),
      BuiltSession(210, 0, ClassicChallenge, DeckB, <<TRUE, FALSE>>),
      BuiltSession(220, 1, RoyaleTournament, DeckA, <<TRUE, FALSE, FALSE, TRUE>>),
      BuiltSession(230, 1, DraftChallenge, DeckB, <<>>),
      BuiltSession(240, 1, ClassicChallenge, DeckA, <<TRUE, TRUE, FALSE>>) }

InitAnalysis ==
    /\ event_deck = NewEventDeck(None, None)
    /\ now = NowAtParse
    /\ ParserIdle
    /\ StoreIdle

save_built_deck ==
    /\ \E deck \in AnalysedSessions :
          LET saved == SaveEventDeck(files, collection_file, deck, now, "ok")
          IN  /\ files' = saved.files
              /\ collection_file' = saved.collection_file
              /\ log' = saved.log
    /\ result' = <<>>
    /\ UNCHANGED <<event_deck, now, battle_logs, hash_seed, pc, event_groups,
                   event_decks>>
    /\ UNCHANGED <<collection, imported, runs, writers>>

\* the analysis reads the store and changes nothing in it: it is made on
\* the store as the last save left it
analyze_event_decks ==
    /\ result = <<>>
    /\ \E event_type \in QueryTypes, listing \in Orderings(files) :
          result' = << [event_type |-> event_type,
                        analysis |-> AnalyzeEventDecks(listing, event_type, now)] >>
    /\ log' = <<>>
    /\ UNCHANGED <<event_deck, now, battle_logs, hash_seed, pc, event_groups,
                   event_decks>>
    /\ UNCHANGED <<collection, files, collection_file, imported, runs, writers>>

NextAnalysis == save_built_deck \/ analyze_event_decks

SpecAnalysis == InitAnalysis /\ [][NextAnalysis]_vars

(***************************************************************************)
(* Two callers save a session each for the same player, each from its own  *)
(* thread or process, with nothing that serializes them.  A call takes     *)
(* three steps on the shared directory: it writes the session document,    *)
(* loads collection.json and adds its session in memory, and writes        *)
(* collection.json (open and dump, taken as one step).                     *)
(***************************************************************************)
Writers == 1..2

\* a caller that has not called yet
IdleWriter(deck) ==
    [pc |-> "idle", event_deck |-> deck, collection |-> <<>>,
     alone |-> FALSE, saw_other |-> FALSE]

InitUpsert ==
    /\ event_deck = NewEventDeck(None, None)
    /\ now = StoreNow
    /\ ParserIdle
    /\ collection = EventDeckCollection(0)
    /\ files = {}
    /\ collection_file = NoCollectionFile
    /\ imported = <<>>
    /\ log = <<>>
    /\ result = <<>>
    /\ runs = <<>>
    /\ \E d1, d2 \in StoreDecks :
          /\ d1.event_id # d2.event_id
          /\ writers = <<IdleWriter(d1), IdleWriter(d2)>>

\* save_event_deck up to the call of _update_collection_file; alone records
\* that the other caller is not inside its call
write_session(w) ==
    /\ writers[w].pc = "idle"
    /\ files' = WriteFile(files, FilePath(writers[w].event_deck),
                          <<DumpEventDeck(writers[w].event_deck)>>)
    /\ log' = Append(log, LogLine("info", "Saved event deck"))
    /\ writers' = [writers EXCEPT
                      ![w].pc = "load",
                      ![w].alone = writers[3 - w].pc \in {"idle", "done"}]
    /\ UNCHANGED <<event_deck, now, battle_logs, hash_seed, pc, event_groups,
                   event_decks>>
    /\ UNCHANGED <<collection, collection_file, imported, result, runs>>

\* _update_collection_file up to collection.add_deck; saw_other records
\* that the other caller's call had returned
load_collection(w) ==
    /\ writers[w].pc = "load"
    /\ writers' = [writers EXCEPT
                      ![w].pc = "save",
                      ![w].collection =
                          << AddDeck(LoadedCollection(collection_file, now),
                                     writers[w].event_deck, now) >>,
                      ![w].saw_other = writers[3 - w].pc = "done"]
    /\ log' = IF collection_file.exists /\ collection_file.text = <<>>
              THEN Append(log, LogLine("warning", "Could not load collection file"))
              ELSE log
    /\ UNCHANGED <<event_deck, now, battle_logs, hash_seed, pc, event_groups,
                   event_decks>>
    /\ UNCHANGED <<collection, files, collection_file, imported, result, runs>>

\* the write of collection.json
save_collection(w) ==
    /\ writers[w].pc = "save"
    /\ collection_file' =
          [exists |-> TRUE, text |-> <<DumpCollection(writers[w].collection[1])>>]
    /\ writers' = [writers EXCEPT ![w].pc = "done"]
    /\ UNCHANGED <<event_deck, now, battle_logs, hash_seed, pc, event_groups,
                   event_decks>>
    /\ UNCHANGED <<collection, files, imported, log, result, runs>>

NextUpsert ==
    \E w \in Writers : write_session(w) \/ load_collection(w) \/ save_collection(w)

SpecUpsert == InitUpsert /\ [][NextUpsert]_vars

(***************************************************************************)
(* The builder as a function: _create_event_deck is handed one group, the  *)
(* continued group's battles with each won or lost, and an event_data of   *)
(* any category of the max-wins table.                                     *)
(***************************************************************************)
\* the categories with an entry of their own in the max-wins table, and one
\* that takes the default
GroupTypes == {GRAND_CHALLENGE, CLASSIC_CHALLENGE, DRAFT_CHALLENGE, CHALLENGE}

ReceiveGroupBattle ==
    /\ pc = "input"
    /\ Len(battle_logs) < MaxGroup
    /\ \E won \in BOOLEAN :
          battle_logs' = Append(battle_logs,
                                ExampleBattle(Len(battle_logs) + 1, won))
    /\ UNCHANGED <<event_deck, now, hash_seed, pc, event_groups, event_decks>>
    /\ UNCHANGED store_vars

create_event_deck ==
    /\ pc = "input"
    /\ battle_logs # <<>>
    /\ pc' = "parsed"
    /\ \E event_type \in GroupTypes :
          LET event_data == [ExtractEventData(battle_logs[1])
                               EXCEPT !.event_type = event_type]
          IN  /\ event_groups' =
                    << [event_id |-> GenerateEventId(event_data, battle_logs[1],
                                                     hash_seed, now),
                        event_data |-> event_data, battles |-> battle_logs] >>
              /\ event_decks' =
                    CreateEventDeck(event_data, battle_logs, hash_seed, now)
    /\ UNCHANGED <<event_deck, now, battle_logs, hash_seed>>
    /\ UNCHANGED store_vars

NextBuild == ReceiveGroupBattle \/ create_event_deck

SpecBuild == InitParse /\ [][NextBuild]_vars

(***************************************************************************)
(* Saves that may fail: every save_event_deck call ends in one of          *)
(* Outcomes, and get_event_decks is called without a filter.               *)
(***************************************************************************)
save_event_deck_or_fail ==
    /\ \E deck \in StoreDecks, outcome \in Outcomes :
          LET saved == SaveEventDeck(files, collection_file, deck, now, outcome)
          IN  /\ files' = saved.files
              /\ collection_file' = saved.collection_file
              /\ log' = saved.log
              /\ result' = << [call |-> "save_event_deck", event_deck |-> deck,
                               raised |-> saved.raised] >>
    /\ UNCHANGED <<event_deck, now, battle_logs, hash_seed, pc, event_groups,
                   event_decks>>
    /\ UNCHANGED <<collection, imported, runs, writers>>

get_all_event_decks ==
    /\ \E listing \in Orderings(files) :
          result' = << [call |-> "get_event_decks",
                        decks |-> GetEventDecks(listing, NoEventType, None, None,
                                                now)] >>
    /\ log' = <<>>
    /\ UNCHANGED <<event_deck, now, battle_logs, hash_seed, pc, event_groups,
                   event_decks>>
    /\ UNCHANGED <<collection, files, collection_file, imported, runs, writers>>

NextSaves == save_event_deck_or_fail \/ get_all_event_decks

SpecSaves == InitStore /\ [][NextSaves]_vars

(***************************************************************************)
(* The progress of a session, from either entry point: a session that is   *)
(* in progress, completed or eliminated is handed to add_battle and        *)
(* _update_progress while the clock advances (pc = "session"), or a battle *)
(* log is segmented and built into sessions by parse_battle_logs.          *)
(***************************************************************************)
InitProgress ==
    \/ /\ \E mw \in MaxWinsValues, et \in EndTimeValues,
             pr \in {IN_PROGRESS, COMPLETED, ELIMINATED} :
              event_deck = [NewEventDeck(mw, et) EXCEPT !.performance.progress = pr]
       /\ now = 0
       /\ battle_logs = <<>>
       /\ hash_seed = 0
       /\ pc = "session"
       /\ event_groups = <<>>
       /\ event_decks = <<>>
       /\ StoreIdle
    \/ InitParse

call_add_battle ==
    /\ pc = "session"
    /\ Len(event_deck.battles) < MaxCalls
    /\ \E battle \in SessionBattles : event_deck' = AddBattle(event_deck, battle, now)
    /\ UNCHANGED <<now, battle_logs, hash_seed, pc, event_groups, event_decks>>
    /\ UNCHANGED store_vars

call_update_progress ==
    /\ pc = "session"
    /\ event_deck' = UpdateProgress(event_deck, now)
    /\ UNCHANGED <<now, battle_logs, hash_seed, pc, event_groups, event_decks>>
    /\ UNCHANGED store_vars

NextProgress ==
    \/ call_add_battle
    \/ call_update_progress
    \/ Tick
    \/ ReceiveBattle
    \/ parse_battle_logs

SpecProgress == InitProgress /\ [][NextProgress]_vars

(***************************************************************************)
(* Claims about the session machine (Spec)                                 *)
(***************************************************************************)
perf == event_deck.performance

EndTimePassed == event_deck.end_time # None /\ event_deck.end_time < now

\* C1 (as stated): a session whose max_wins is 10 is completed exactly from
\* the add_battle that brings wins to 10 on: never before, always after.
C1_Original ==
    perf.max_wins = 10 => (perf.progress = COMPLETED <=> perf.wins >= 10)

\* C1 (amended): a session whose max_wins is 10 and whose end_time is unset
\* or has not passed is completed exactly from the add_battle that brings
\* wins to 10 on: never before, and always after, losing battles included.
C1_CompletedExactlyAtTenWins ==
    (perf.max_wins = 10 /\ ~EndTimePassed)
        => (perf.progress = COMPLETED <=> perf.wins >= 10)

\* C1 witness: the tenth win completed the session and a loss came after it.
C1_Witness ==
    /\ perf.max_wins = 10 /\ ~EndTimePassed
    /\ perf.wins = 10 /\ perf.losses >= 1
    /\ event_deck.battles[Len(event_deck.battles)].result = "loss"
    /\ event_deck.battles[Len(event_deck.battles) - 1].result = "win"
    /\ perf.progress = COMPLETED

\* C2: the add_battle that brings losses to 3 sets progress to eliminated,
\* unless progress was completed before it, in which case it stays
\* completed; and progress is never eliminated with fewer than 3 losses.
C2_EliminatedExactlyAtThreeLosses ==
    [][ /\ (perf.losses = 2 /\ perf'.losses = 3)
            => IF perf.progress = COMPLETED
               THEN perf'.progress = COMPLETED
               ELSE perf'.progress = ELIMINATED
        /\ perf'.progress = ELIMINATED => perf'.losses >= 3 ]_vars

\* C3: once progress is completed or eliminated, no add_battle changes it.
C3_TerminalAbsorbing ==
    [][ perf.progress \in {COMPLETED, ELIMINATED}
            => perf'.progress = perf.progress ]_vars

\* C4: with max_wins unset, or wins below max_wins, the add_battle that
\* brings losses to 3 sets progress to eliminated.
C4_EliminationWithoutMaxWins ==
    [][ ( /\ perf.losses = 2 /\ perf'.losses = 3
          /\ (perf'.max_wins = None \/ perf'.wins < perf'.max_wins) )
            => perf'.progress = ELIMINATED ]_vars

(***************************************************************************)
(* Claims about the parser (SpecParse, SpecExample)                        *)
(***************************************************************************)
Parsed == pc = "parsed"

\* the qualifying battles in the order the segmenter walks them
QualifyingInOrder == SortedByBattleTime(EventBattles(battle_logs))

TimeOf(battle) == ParseBattleTime(battle.battleTime, now)

Distance(a, b) ==
    IF TimeOf(a) >= TimeOf(b) THEN TimeOf(a) - TimeOf(b) ELSE TimeOf(b) - TimeOf(a)

SortedNames(battle) == SortedByName(ExtractDeckFromBattle(battle))

SameDeckAndCategory(a, b) ==
    /\ EventTypeOf(a.gameMode) = EventTypeOf(b.gameMode)
    /\ SortedNames(a) = SortedNames(b)

HasRecordOf(ed, battle) ==
    /\ battle.opponent # <<>>
    /\ \E i \in 1..Len(ed.battles) :
          ed.battles[i].opponent_tag = battle.opponent[1].tag

\* a and b are members of the same output groups, and a session that
\* records one of them records the other (when it has opponent data: the
\* builder makes no record of a battle without)
SameSession(a, b) ==
    /\ \A g \in 1..Len(event_groups) :
          InSeq(a, event_groups[g].battles) <=> InSeq(b, event_groups[g].battles)
    /\ \A e \in 1..Len(event_decks) :
          (a.opponent # <<>> /\ b.opponent # <<>>)
              => (HasRecordOf(event_decks[e], a) <=> HasRecordOf(event_decks[e], b))

\* some output group or session holds both a and b
Together(a, b) ==
    \/ \E g \in 1..Len(event_groups) :
          InSeq(a, event_groups[g].battles) /\ InSeq(b, event_groups[g].battles)
    \/ \E e \in 1..Len(event_decks) :
          HasRecordOf(event_decks[e], a) /\ HasRecordOf(event_decks[e], b)

ExampleLog(results) == [k \in 1..Len(results) |-> ExampleBattle(k, results[k])]

\* C5: the battles at 09:00, 09:10, 09:25 (two wins, then a loss) give one
\* session with wins 2, losses 1, in_progress; continued by eight more wins
\* the group gives one session with wins 10 whose progress is completed.
C5_GrandChallengeExample ==
    Parsed =>
      /\ battle_logs = ExampleLog(<<TRUE, TRUE, FALSE>>)
            => /\ Len(event_decks) = 1
               /\ event_decks[1].performance.wins = 2
               /\ event_decks[1].performance.losses = 1
               /\ event_decks[1].performance.progress = IN_PROGRESS
      /\ battle_logs = ExampleLog(<<TRUE, TRUE, FALSE, TRUE, TRUE, TRUE, TRUE,
                                    TRUE, TRUE, TRUE, TRUE>>)
            => /\ Len(event_decks) = 1
               /\ event_decks[1].performance.wins = 10
               /\ event_decks[1].performance.progress = COMPLETED

\* C6: a session built from a mode label containing "Grand Challenge" has
\* category grand_challenge and max_wins 10, one containing "Classic
\* Challenge" or "Draft Challenge" the matching category and max_wins 12,
\* every other session max_wins 20, with category challenge when the label
\* matches no vocabulary entry.
C6_CategoryAndMaxWins ==
    Parsed =>
      \A e \in 1..Len(event_decks) :
        LET ed == event_decks[e]
            label == Lower(ed.event_rules.battle_mode)
        IN  IF Contains(Lower(GrandChallenge), label)
            THEN ed.event_type = GRAND_CHALLENGE /\ ed.performance.max_wins = 10
            ELSE IF Contains(Lower(ClassicChallenge), label)
            THEN ed.event_type = CLASSIC_CHALLENGE /\ ed.performance.max_wins = 12
            ELSE IF Contains(Lower(DraftChallenge), label)
            THEN ed.event_type = DRAFT_CHALLENGE /\ ed.performance.max_wins = 12
            ELSE /\ ed.performance.max_wins = 20
                 /\ ~MatchesEventMode(ed.event_rules.battle_mode)
                        => ed.event_type = CHALLENGE

\* C7: the battle list of every returned session is in non-decreasing
\* timestamp order.
C7_SessionBattlesInTimeOrder ==
    Parsed =>
      \A e \in 1..Len(event_decks) :
        \A i, j \in 1..Len(event_decks[e].battles) :
          i < j => event_decks[e].battles[i].timestamp
                      <= event_decks[e].battles[j].timestamp

\* the claim's battle that is not an event battle: no vocabulary entry in
\* its mode label, no own-side player with an empty roster, and not flagged
\* isLadderBattle=false
C8_NotAnEventBattle(battle) ==
    /\ \A k \in 1..Len(EVENT_BATTLE_MODES) :
          ~Contains(Lower(EVENT_BATTLE_MODES[k][1]), Lower(battle.gameMode))
    /\ \A i \in 1..Len(battle.team) : Len(battle.team[i].cards) > 0
    /\ battle.isLadderBattle

\* C8: a battle that is not an event battle is in no output group and no
\* output session; every battle of every group and session is an event
\* battle of the input.
C8_OnlyEventBattles ==
    Parsed =>
      /\ \A g \in 1..Len(event_groups) :
           \A i \in 1..Len(event_groups[g].battles) :
             /\ InSeq(event_groups[g].battles[i], battle_logs)
             /\ ~C8_NotAnEventBattle(event_groups[g].battles[i])
      /\ \A e \in 1..Len(event_decks) :
           \A i \in 1..Len(event_decks[e].battles) :
             \E k \in 1..Len(battle_logs) :
               /\ HasRecordOf([battles |-> <<event_decks[e].battles[i]>>],
                              battle_logs[k])
               /\ ~C8_NotAnEventBattle(battle_logs[k])

\* C8 witness: the log held a battle that is not an event battle, and a
\* session with battles was returned.
C8_Witness ==
    /\ Parsed
    /\ \E k \in 1..Len(battle_logs) : C8_NotAnEventBattle(battle_logs[k])
    /\ \E e \in 1..Len(event_decks) : Len(event_decks[e].battles) >= 1

\* C9 (as stated): two consecutive qualifying battles at most 60 minutes
\* apart, with the same category and the same card names, are in the same
\* session.
C9_Original ==
    Parsed =>
      \A i \in 1..(Len(QualifyingInOrder) - 1) :
        LET a == QualifyingInOrder[i]
            b == QualifyingInOrder[i + 1]
        IN  (Distance(a, b) <= OneHour /\ SameDeckAndCategory(a, b))
                => SameSession(a, b)

\* C9 (amended): two consecutive qualifying battles that both carry own-side
\* team data, at most 60 minutes apart (60 included), with the same category
\* and the same card names ignoring levels, are in the same session.
C9_CloseBattlesShareSession ==
    Parsed =>
      \A i \in 1..(Len(QualifyingInOrder) - 1) :
        LET a == QualifyingInOrder[i]
            b == QualifyingInOrder[i + 1]
        IN  ( /\ a.team # <<>> /\ b.team # <<>>
              /\ Distance(a, b) <= OneHour
              /\ SameDeckAndCategory(a, b) )
                => SameSession(a, b)

\* C9 witness: the battles of 09:00 and 10:00, exactly 60 minutes apart and
\* with the same cards in another order, are the two battles of one session.
C9_Witness ==
    /\ Parsed
    /\ QualifyingInOrder = <<BattleUniverse[1], BattleUniverse[4]>>
    /\ Distance(BattleUniverse[1], BattleUniverse[4]) = OneHour
    /\ Len(event_decks) = 1
    /\ HasRecordOf(event_decks[1], BattleUniverse[1])
    /\ HasRecordOf(event_decks[1], BattleUniverse[4])

\* C10: two consecutive qualifying battles with the same deck and category
\* that are more than 60 minutes apart are never in the same session.
C10_DistantBattlesSplit ==
    Parsed =>
      \A i \in 1..(Len(QualifyingInOrder) - 1) :
        LET a == QualifyingInOrder[i]
            b == QualifyingInOrder[i + 1]
        IN  (Distance(a, b) > OneHour /\ SameDeckAndCategory(a, b))
                => ~Together(a, b)

\* the own-side card names of a battle, as listed in the log
OwnNames(battle) ==
    IF battle.team = <<>> THEN <<>>
    ELSE [i \in 1..Len(battle.team[1].cards) |-> battle.team[1].cards[i].name]

CountIn(name, deck) == Cardinality({i \in 1..Len(deck) : deck[i] = name})

SameMultiset(deck1, deck2) ==
    \A i \in 1..Len(CardNames) :
        CountIn(CardNames[i], deck1) = CountIn(CardNames[i], deck2)

\* b differs from the open session g in category or in the multiset of names
DiffersFrom(g, b) ==
    \/ EventTypeOf(b.gameMode) # g.event_data.event_type
    \/ ~SameMultiset(OwnNames(b), g.event_data.deck_cards)

\* C11 (as stated): for consecutive qualifying battles a, b within the time
\* gap, with a in the open session g, b opens a boundary (is not put in g)
\* when its category or its multiset of card names differs from g's, and is
\* put in g when they differ in card order or card levels only.
C11_Original ==
    Parsed =>
      \A i \in 1..(Len(QualifyingInOrder) - 1) :
        LET a == QualifyingInOrder[i]
            b == QualifyingInOrder[i + 1]
        IN  Distance(a, b) <= OneHour =>
              \A g \in 1..Len(event_groups) :
                InSeq(a, event_groups[g].battles) =>
                  (DiffersFrom(event_groups[g], b)
                      <=> ~InSeq(b, event_groups[g].battles))

\* C11 (amended): the same, for a battle b that carries own-side team data.
C11_BoundaryByCategoryOrDeck ==
    Parsed =>
      \A i \in 1..(Len(QualifyingInOrder) - 1) :
        LET a == QualifyingInOrder[i]
            b == QualifyingInOrder[i + 1]
        IN  (b.team # <<>> /\ Distance(a, b) <= OneHour) =>
              \A g \in 1..Len(event_groups) :
                InSeq(a, event_groups[g].battles) =>
                  (DiffersFrom(event_groups[g], b)
                      <=> ~InSeq(b, event_groups[g].battles))

\* C11 witness: after 09:00 with deck A, the battle of 09:10 with the same
\* cards listed backwards stays in the session, and the tournament battle
\* of 09:10 with deck A opens a new one.
C11_Witness ==
    /\ Parsed
    /\ battle_logs = <<BattleUniverse[1], BattleUniverse[2], BattleUniverse[16]>>
    /\ Len(event_groups) = 2
    /\ event_groups[1].battles = <<BattleUniverse[1], BattleUniverse[2]>>
    /\ event_groups[2].battles = <<BattleUniverse[16]>>
    /\ event_groups[2].event_data.event_type = TOURNAMENT

\* the parsed time of the first battle of a group
FirstBattleTime(group) == TimeOf(group.battles[1])

\* C12: the groups returned by the segmentation are in chronological order:
\* a group listed before another has a first-battle time that is no later.
C12_GroupsChronological ==
    Parsed =>
      \A g, h \in 1..Len(event_groups) :
        g < h => FirstBattleTime(event_groups[g]) <= FirstBattleTime(event_groups[h])

\* the first battle of the group has an own-side roster of exactly 8 cards
RosterOfEight(group) ==
    /\ group.battles[1].team # <<>>
    /\ Len(group.battles[1].team[1].cards) = 8

\* C20: a group whose first battle's own-side roster does not have exactly
\* 8 cards produces no session, every other group of the batch produces its
\* session, and every returned session has a deck of exactly 8 cards.
C20_OnlyEightCardSessions ==
    Parsed =>
      /\ \A g \in 1..Len(event_groups) :
           RosterOfEight(event_groups[g])
             <=> \E e \in 1..Len(event_decks) :
                    event_decks[e].event_id = event_groups[g].event_id
      /\ Len(event_decks)
           = Cardinality({g \in 1..Len(event_groups) : RosterOfEight(event_groups[g])})
      /\ \A e \in 1..Len(event_decks) : Len(event_decks[e].deck.cards) = 8

\* C20 witness: the first group (a 7-card roster) was dropped and the group
\* after it gave the one session returned.
C20_Witness ==
    /\ Parsed
    /\ Len(event_groups) = 2
    /\ event_groups[1].battles[1].team # <<>>
    /\ Len(event_groups[1].battles[1].team[1].cards) = 7
    /\ RosterOfEight(event_groups[2])
    /\ Len(event_decks) = 1
    /\ event_decks[1].event_id = event_groups[2].event_id

(***************************************************************************)
(* Claims about the import (SpecReimport, SpecImport)                      *)
(***************************************************************************)
EventIds(decks) == [i \in 1..Len(decks) |-> decks[i].event_id]

\* C13: the segmentation is deterministic: a run on the input of an earlier
\* run (the same process or another) gives the same groups, with the same
\* session identity for every group and every session.
C13_Deterministic ==
    Parsed =>
      \A r \in 1..Len(runs) :
        runs[r].battle_logs = battle_logs
          => /\ event_groups = runs[r].event_groups
             /\ EventIds(event_decks) = EventIds(runs[r].event_decks)

\* the sessions persisted in collection.json
StoredDecks(cf) ==
    IF cf.exists /\ cf.text # <<>> THEN LoadCollection(cf.text[1]).decks ELSE <<>>

DeckNames(ed) == [i \in 1..Len(ed.deck.cards) |-> ed.deck.cards[i].name]

\* the same deck / category / name / date recombination
SameRecombination(d, e) ==
    /\ d.event_name = e.event_name
    /\ d.event_type = e.event_type
    /\ d.start_time \div MinutesPerDay = e.start_time \div MinutesPerDay
    /\ SameMultiset(DeckNames(d), DeckNames(e))

RecursIn(e, decks) == \E i \in 1..Len(decks) : SameRecombination(decks[i], e)

\* C15: an import all of whose sessions recur in the persisted collection
\* (the same window again, or an overlapping one, in this run or a later
\* one) leaves the collection with the same number of entries, and changes
\* only the entries of the recurring sessions.
C15_ReimportKeepsSize ==
    [][ ( /\ pc = "input" /\ pc' = "parsed"
          /\ \A e \in 1..Len(event_decks') :
                RecursIn(event_decks'[e], StoredDecks(collection_file)) )
        => /\ Len(StoredDecks(collection_file')) = Len(StoredDecks(collection_file))
           /\ \A i \in 1..Len(StoredDecks(collection_file)) :
                \/ StoredDecks(collection_file')[i] = StoredDecks(collection_file)[i]
                \/ RecursIn(StoredDecks(collection_file)[i], event_decks') ]_vars

\* the lines that end a save attempt of import_from_battle_logs
IsAttemptLine(line) ==
    line.msg \in {"Imported event deck", "Failed to import event deck"}

Attempts == SelectSeq(log, IsAttemptLine)

AttemptSucceeded(pair) == pair.line.msg = "Imported event deck"

\* the parsed sessions whose save attempt succeeded, in order
SucceededDecks ==
    LET pairs == [i \in 1..Len(Attempts) |->
                    [deck |-> event_decks[i], line |-> Attempts[i]]]
        kept == SelectSeq(pairs, AttemptSucceeded)
    IN  [i \in 1..Len(kept) |-> kept[i].deck]

\* C19: in import_from_battle_logs a save is attempted for every parsed
\* session, whichever saves fail, and the result is exactly the sessions
\* whose save succeeded.
C19_FailureDoesNotAbortBatch ==
    Parsed =>
      /\ Len(Attempts) = Len(event_decks)
      /\ imported = SucceededDecks

\* C19 witness: two sessions were parsed, the save of the first failed, and
\* the second was saved and is the result.
C19_Witness ==
    /\ Parsed
    /\ Len(event_decks) = 2
    /\ Len(Attempts) = 2
    /\ Attempts[1].msg = "Failed to import event deck"
    /\ Attempts[2].msg = "Imported event deck"
    /\ imported = <<event_decks[2]>>
    /\ \E i \in 1..Len(StoredDecks(collection_file)) :
          StoredDecks(collection_file)[i] = event_decks[2]

(***************************************************************************)
(* Claims about the collection (SpecCollection)                            *)
(***************************************************************************)
\* the step from c to d is what the claim says of add_deck(deck) at time t
C14_AddDeckEffect(c, d, deck, t) ==
    /\ d.last_updated = t
    /\ IF \E i \in 1..Len(c.decks) : c.decks[i].event_id = deck.event_id
       THEN /\ Len(d.decks) = Len(c.decks)
            /\ \E i \in 1..Len(c.decks) :
                  /\ c.decks[i].event_id = deck.event_id
                  /\ d.decks[i] = deck
                  /\ \A j \in 1..Len(c.decks) : j # i => d.decks[j] = c.decks[j]
       ELSE /\ Len(d.decks) = Len(c.decks) + 1
            /\ d.decks[Len(d.decks)] = deck
            /\ \A j \in 1..Len(c.decks) : d.decks[j] = c.decks[j]

\* C14: on a collection that started empty, add_deck with an identity that
\* is present replaces that entry at its position, leaving the size and the
\* other entries unchanged; with a new identity it appends, growing the size
\* by one; both set last_updated to the time of the call; and afterwards no
\* two entries share an event_id.
C14_AddDeckKeepsIdentitiesUnique ==
    [][ now' = now =>
          /\ \E deck \in StoreDecks :
                C14_AddDeckEffect(collection, collection', deck, now)
          /\ \A i, j \in 1..Len(collection'.decks) :
                i # j => collection'.decks[i].event_id # collection'.decks[j].event_id
      ]_vars

\* C14 witness: the collection holds the first Grand Challenge session with
\* its later content at position 1, before the second one, and was updated
\* after the clock advanced.
C14_Witness ==
    /\ Len(collection.decks) = 2
    /\ collection.decks[1] = StoredDeck(GrandChallenge, CHALLENGE, 540, 201, 3)
    /\ collection.decks[2] = StoredDeck(GrandChallenge, CHALLENGE, 780, 16, 0)
    /\ collection.last_updated = 1
    /\ now = 1

(***************************************************************************)
(* Claims about the store (SpecStore)                                      *)
(***************************************************************************)
Queried == result # <<>>

\* the sessions that get_event_decks found and kept before the limit: the
\* readable documents of the searched subdirectories that pass the cutoff
Matching(event_type, days_back) ==
    { LoadEventDeck(f.text[1]) :
        f \in { g \in files :
                  /\ g.text # <<>>
                  /\ \E k \in 1..Len(SearchedSubdirs(event_type)) :
                        g.path.subdir = SearchedSubdirs(event_type)[k]
                  /\ Truthy(days_back)
                        => LoadEventDeck(g.text[1]).start_time
                              >= now - days_back * MinutesPerDay } }

Returned == { result[1].decks[i] : i \in 1..Len(result[1].decks) }

\* C16: a query with a category filter returns only sessions of that
\* category.
C16_OnlyQueriedCategory ==
    (Queried /\ result[1].event_type # NoEventType) =>
      \A i \in 1..Len(result[1].decks) :
        result[1].decks[i].event_type = result[1].event_type

\* the result is the n newest of the matching sessions, newest first
NewestOf(n) ==
    LET decks == result[1].decks
        matching == Matching(result[1].event_type, result[1].days_back)
    IN  /\ Len(decks) = IF n < Cardinality(matching) THEN n ELSE Cardinality(matching)
        /\ Cardinality(Returned) = Len(decks)
        /\ Returned \subseteq matching
        /\ \A i, j \in 1..Len(decks) :
              i < j => decks[i].start_time >= decks[j].start_time
        /\ \A m \in matching \ Returned :
              \A i \in 1..Len(decks) : m.start_time <= decks[i].start_time

\* C17: a query with limit n, for every n >= 0, returns at most n sessions:
\* the n newest by start_time among the matching ones (all of them if fewer
\* match), in non-increasing start_time order.
C17_LimitReturnsNewest ==
    (Queried /\ result[1].limit # None) => NewestOf(result[1].limit)

\* C18: after saves that all succeeded, of sessions with k distinct
\* identities (the entries of collection.json), an unfiltered query returns
\* k sessions.
C18_OneDocumentPerIdentity ==
    ( /\ Queried
      /\ result[1].event_type = NoEventType
      /\ result[1].days_back = None
      /\ result[1].limit = None )
        => Len(result[1].decks) = Len(StoredDecks(collection_file))


(***************************************************************************)
(* Claims about the counters of add_battle (Spec)                          *)
(***************************************************************************)
LastBattle(ed) == ed.battles[Len(ed.battles)]

\* C21: each add_battle increments exactly one of wins and losses by 1 and
\* leaves the other unchanged; on a win current_streak increases by 1 and
\* best_streak becomes the maximum of its old value and the new
\* current_streak; on a loss current_streak becomes 0 and best_streak is
\* unchanged.
C21_OneCounterPerBattle ==
    [][ event_deck'.battles # event_deck.battles
            => IF LastBattle(event_deck').result = "win"
               THEN /\ perf'.wins = perf.wins + 1
                    /\ perf'.losses = perf.losses
                    /\ perf'.current_streak = perf.current_streak + 1
                    /\ perf'.best_streak
                          = Max(perf.best_streak, perf'.current_streak)
               ELSE /\ perf'.losses = perf.losses + 1
                    /\ perf'.wins = perf.wins
                    /\ perf'.current_streak = 0
                    /\ perf'.best_streak = perf.best_streak ]_vars

\* C21 witness: two wins, a loss that reset the streak, and a win after it.
C21_Witness ==
    /\ Len(event_deck.battles) = 4
    /\ event_deck.battles[1].result = "win"
    /\ event_deck.battles[2].result = "win"
    /\ event_deck.battles[3].result = "loss"
    /\ event_deck.battles[4].result = "win"
    /\ perf.wins = 3 /\ perf.losses = 1
    /\ perf.current_streak = 1 /\ perf.best_streak = 2


RECURSIVE SumOwnCrowns(_, _)
SumOwnCrowns(battles, i) ==
    IF i > Len(battles) THEN 0
    ELSE battles[i].crowns + SumOwnCrowns(battles, i + 1)

RECURSIVE SumOpponentCrowns(_, _)
SumOpponentCrowns(battles, i) ==
    IF i > Len(battles) THEN 0
    ELSE battles[i].opponent_crowns + SumOpponentCrowns(battles, i + 1)

\* C22: after any sequence of add_battle calls on a fresh session,
\* crowns_earned is the sum of the own crowns of all recorded battles and
\* crowns_lost the sum of the opponent crowns of all recorded battles, wins
\* and losses alike.
C22_CrownTotalsOverAllBattles ==
    /\ perf.crowns_earned = SumOwnCrowns(event_deck.battles, 1)
    /\ perf.crowns_lost = SumOpponentCrowns(event_deck.battles, 1)


\* the ratio <<numerator, denominator>> is the number n / d
RatioIs(ratio, n, d) == ratio[2] > 0 /\ ratio[1] * d = n * ratio[2]

\* C28: in every state reachable by add_battle from a fresh session,
\* wins + losses is the number of recorded battles, win_rate is
\* wins / (wins + losses), and 0 when there are no battles, and
\* current_streak <= best_streak <= wins.
C28_CounterConsistency ==
    /\ perf.wins + perf.losses = Len(event_deck.battles)
    /\ IF Len(event_deck.battles) = 0
       THEN RatioIs(perf.win_rate, 0, 1)
       ELSE RatioIs(perf.win_rate, perf.wins, perf.wins + perf.losses)
    /\ perf.current_streak <= perf.best_streak
    /\ perf.best_streak <= perf.wins

\* C28 witness: wins and losses recorded, the streak below the best streak
\* and the best streak below the wins.
C28_Witness ==
    /\ perf.losses >= 2
    /\ 0 < perf.current_streak
    /\ perf.current_streak < perf.best_streak
    /\ perf.best_streak < perf.wins
    /\ perf.win_rate = <<perf.wins, Len(event_deck.battles)>>


(***************************************************************************)
(* Claims about the progress from either entry point (SpecProgress)        *)
(***************************************************************************)
\* C23: from a session that is in progress, completed or eliminated, no
\* sequence of add_battle and _update_progress calls produces the progress
\* forfeited, and no session built by parse_battle_logs from any battle log
\* has it.
C23_NeverForfeited ==
    /\ perf.progress # FORFEITED
    /\ \A i \in 1..Len(event_decks) :
          event_decks[i].performance.progress # FORFEITED

\* C23 witness: a session with a max_wins it has not reached, whose end_time
\* has passed, after battles of which fewer than three were lost.
C23_Witness ==
    /\ pc = "session"
    /\ Truthy(perf.max_wins) /\ perf.wins < perf.max_wins
    /\ EndTimePassed
    /\ Len(event_deck.battles) >= 2
    /\ perf.losses \in 1..2
    /\ perf.progress = COMPLETED


(***************************************************************************)
(* Claims about the analysis (SpecAnalysis)                                *)
(***************************************************************************)
Analysed == result # <<>> /\ "summary" \in DOMAIN result[1].analysis

\* the sessions the analysis was made on: the stored documents of the
\* searched directories
AnalysedSessionSet ==
    { LoadEventDeck(f.text[1]) :
        f \in { g \in files : /\ g.text # <<>>
                              /\ \E k \in 1..Len(SearchedSubdirs(result[1].event_type)) :
                                    g.path.subdir = SearchedSubdirs(result[1].event_type)[k] } }

HasCard(d, name) == \E j \in 1..Len(d.deck.cards) : d.deck.cards[j].name = name

RECURSIVE WinsOver(_)
WinsOver(S) ==
    IF S = {} THEN 0
    ELSE LET d == CHOOSE x \in S : TRUE
         IN  d.performance.wins + WinsOver(S \ {d})

RECURSIVE LossesOver(_)
LossesOver(S) ==
    IF S = {} THEN 0
    ELSE LET d == CHOOSE x \in S : TRUE
         IN  d.performance.losses + LossesOver(S \ {d})

AnalysedCards ==
    { d.deck.cards[j].name : d \in AnalysedSessionSet, j \in 1..8 }

\* C24: the win-rate table of analyze_event_decks has, for every card of the
\* analysed sessions, the wins summed over the sessions containing the card
\* divided by their summed wins plus losses, and the win rate 0 for a card
\* whose sessions have no recorded battle.
C24_CardWinRates ==
    Analysed =>
      LET table == result[1].analysis.card_analysis.highest_win_rate_cards
      IN  \A name \in AnalysedCards :
            LET with == { d \in AnalysedSessionSet : HasCard(d, name) }
                w == WinsOver(with)
                l == LossesOver(with)
            IN  \E i \in 1..Len(table) :
                  /\ table[i][1] = name
                  /\ IF w + l > 0 THEN RatioIs(table[i][2], w, w + l)
                     ELSE RatioIs(table[i][2], 0, 1)


\* the entry of the top-performing list reports the session d
ReportsSession(entry, d) ==
    /\ entry.event_name = d.event_name
    /\ entry.event_type = d.event_type
    /\ entry.record = <<d.performance.wins, d.performance.losses>>
    /\ entry.win_rate = FormatPercent(d.performance.win_rate)

\* C25: the top-performing list of analyze_event_decks holds only sessions
\* with at least 3 recorded battles, in non-increasing win-rate order, and
\* the summary's session count, battle count and overall win rate are taken
\* over all analysed sessions, those with fewer than 3 battles included.
C25_TopPerformingAndSummary ==
    Analysed =>
      LET top == result[1].analysis.top_performing_decks
          summary == result[1].analysis.summary
          w == WinsOver(AnalysedSessionSet)
          l == LossesOver(AnalysedSessionSet)
      IN  /\ \A i \in 1..Len(top) :
                \E d \in AnalysedSessionSet :
                   ReportsSession(top[i], d) /\ Len(d.battles) >= 3
          /\ \A i \in 1..(Len(top) - 1) : top[i].win_rate >= top[i + 1].win_rate
          /\ summary.total_decks = Cardinality(AnalysedSessionSet)
          /\ summary.total_battles = w + l
          /\ IF w + l > 0 THEN RatioIs(summary.overall_win_rate, w, w + l)
             ELSE RatioIs(summary.overall_win_rate, 0, 1)

\* C25 witness: an analysis of sessions of which one has fewer than 3
\* battles and two, of different win rates, are ranked.
C25_Witness ==
    /\ Analysed
    /\ \E d \in AnalysedSessionSet : Len(d.battles) \in 1..2
    /\ Len(result[1].analysis.top_performing_decks) >= 2
    /\ result[1].analysis.top_performing_decks[1].win_rate
          > result[1].analysis.top_performing_decks[2].win_rate
    /\ result[1].analysis.summary.total_decks
          > Len(result[1].analysis.top_performing_decks)


(***************************************************************************)
(* Claims about concurrent saves (SpecUpsert)                              *)
(***************************************************************************)
BothDone == \A w \in Writers : writers[w].pc = "done"

InCollectionFile(w) ==
    \E i \in 1..Len(StoredDecks(collection_file)) :
       StoredDecks(collection_file)[i].event_id = writers[w].event_deck.event_id

\* neither call began while the other was inside its call
Serialized == \A w \in Writers : writers[w].alone

\* C26: of two saves of sessions with different identities for one player,
\* made without serialization, the persisted collection holds both
\* sessions exactly when one call loaded the collection after the other
\* had written it; when both loaded before either wrote, it holds only one
\* of them; and when the calls are serialized it holds both.
C26_LostUpdateUnlessSerialized ==
    BothDone =>
      /\ (InCollectionFile(1) /\ InCollectionFile(2))
            <=> \E w \in Writers : writers[w].saw_other
      /\ InCollectionFile(1) \/ InCollectionFile(2)
      /\ Serialized => (InCollectionFile(1) /\ InCollectionFile(2))

\* C26 witness: both calls returned, both session documents are stored,
\* and the collection holds the second caller's session without the first's.
C26_Witness ==
    /\ BothDone
    /\ ~Serialized
    /\ Cardinality(files) = 2
    /\ InCollectionFile(2)
    /\ ~InCollectionFile(1)


(***************************************************************************)
(* Claims about the conservation of battles by the segmenter (SpecParse)   *)
(***************************************************************************)
\* the number of places at which the battle occurs in the returned groups
RECURSIVE OccurrencesIn(_, _, _)
OccurrencesIn(battle, groups, g) ==
    IF g > Len(groups) THEN 0
    ELSE Cardinality({ i \in 1..Len(groups[g].battles) :
                         groups[g].battles[i] = battle })
           + OccurrencesIn(battle, groups, g + 1)

\* the number of battles of sorted_battles[i..] at which the walk opens a
\* session, current_event being <<>> or the data of the open session
RECURSIVE BoundariesOpened(_, _, _, _)
BoundariesOpened(sorted_battles, i, current_event, last_battle_time) ==
    IF i > Len(sorted_battles) THEN 0
    ELSE LET battle == sorted_battles[i]
             battle_time == ParseBattleTime(battle.battleTime, now)
         IN  IF IsNewEvent(battle, current_event, battle_time, last_battle_time)
             THEN 1 + BoundariesOpened(sorted_battles, i + 1,
                                       <<ExtractEventData(battle)>>, battle_time)
             ELSE BoundariesOpened(sorted_battles, i + 1, current_event, battle_time)

\* C27: every battle of the input that is an event battle is in exactly one
\* of the returned groups, and there are as many groups as the walk opened
\* sessions: no group is lost or overwritten by another of the same
\* identity.
C27_GroupingConservesBattles ==
    Parsed =>
      /\ \A k \in 1..Len(battle_logs) :
            IsEventBattle(battle_logs[k])
              => OccurrencesIn(battle_logs[k], event_groups, 1) = 1
      /\ Len(event_groups) = BoundariesOpened(QualifyingInOrder, 1, <<>>, None)


(***************************************************************************)
(* Claims about the builder's order of steps (SpecBuild)                   *)
(***************************************************************************)
\* the session obtained when max_wins is assigned before the replay, every
\* add_battle evaluating the transition
ReplayedWithMaxWins(built, battles) ==
    AddAllBattles([built EXCEPT
                      !.battles = <<>>,
                      !.performance = [EventPerformance EXCEPT
                                          !.max_wins = built.performance.max_wins]],
                  battles, 1, now)

\* C29: the progress of the session built by _create_event_deck, which
\* assigns max_wins after the replay of the battles and then evaluates the
\* transition once, is the progress obtained when max_wins is assigned
\* before the replay and the transition is evaluated after every battle.
C29_BuildOrderIrrelevant ==
    (Parsed /\ event_decks # <<>>) =>
       event_decks[1].performance.progress
          = ReplayedWithMaxWins(event_decks[1],
                                event_groups[1].battles).performance.progress

\* C29 witness: a built session that lost its first three battles and then
\* reached its max_wins.
C29_Witness ==
    /\ Parsed /\ event_decks # <<>>
    /\ Len(event_decks[1].battles) > 3
    /\ \A k \in 1..3 : event_decks[1].battles[k].result = "loss"
    /\ event_decks[1].performance.wins >= event_decks[1].performance.max_wins
    /\ event_decks[1].performance.progress = COMPLETED


(***************************************************************************)
(* Claims about the two persisted views (SpecSaves)                        *)
(***************************************************************************)
IdSet(decks) == { decks[i].event_id : i \in 1..Len(decks) }

\* the identities of the persisted collection index
IndexIds(cf) == { StoredDecks(cf)[i].event_id : i \in 1..Len(StoredDecks(cf)) }

\* the identities of the loadable session documents
DocumentIds(fs) == { LoadEventDeck(f.text[1]).event_id : f \in { g \in fs : g.text # <<>> } }

\* C30: after any sequence of save_event_deck calls, each succeeding or
\* failing at the session write, the collection read or the collection
\* write, an unfiltered get_event_decks returns the identities of the
\* persisted collection index, and a save that reports failure for a
\* session that was in neither view leaves it in neither.
C30_ViewsConsistent ==
    [][ /\ (result' # <<>> /\ result'[1].call = "get_event_decks")
            => IdSet(result'[1].decks) = IndexIds(collection_file')
        /\ ( /\ result' # <<>> /\ result'[1].call = "save_event_deck"
              /\ result'[1].raised
              /\ result'[1].event_deck.event_id
                    \notin (IndexIds(collection_file) \cup DocumentIds(files)) )
            => result'[1].event_deck.event_id
                    \notin (IndexIds(collection_file') \cup DocumentIds(files')) ]_vars

====
